---------------------------- MODULE Spec2Model ----------------------------
(* A model of snowpack's production build orchestrator,                    *)
(* src/commands/build.ts: command({cwd, config}).                          *)
(*                                                                         *)
(* Strings are TLA+ strings; paths and specifiers are handled character by *)
(* character as the JavaScript string and path functions handle them.      *)
EXTENDS Integers, Sequences, FiniteSets, TLC

-----------------------------------------------------------------------------
\* F(v), with v evaluated once
Let(v, F(_)) == CHOOSE r \in {F(x) : x \in {v}} : TRUE

-----------------------------------------------------------------------------
(* JavaScript string functions used by build.ts                            *)

CharAt(s, i) == SubSeq(s, i, i)

StartsWith(s, p) == Len(s) >= Len(p) /\ SubSeq(s, 1, Len(p)) = p

EndsWith(s, p) == Len(s) >= Len(p) /\ SubSeq(s, Len(s) - Len(p) + 1, Len(s)) = p

\* index of the first occurrence of sub in s at or after i, 0 when there is none
RECURSIVE IndexFrom(_, _, _)
IndexFrom(s, sub, i) ==
    IF i + Len(sub) - 1 > Len(s) THEN 0
    ELSE IF SubSeq(s, i, i + Len(sub) - 1) = sub THEN i
    ELSE IndexFrom(s, sub, i + 1)

IndexOf(s, sub) == IndexFrom(s, sub, 1)

Includes(s, sub) == IndexOf(s, sub) # 0

\* index of the last occurrence of the character c in s at or before i, 0 when
\* there is none
RECURSIVE LastIndexFrom(_, _, _)
LastIndexFrom(s, c, i) ==
    IF i = 0 THEN 0
    ELSE IF CharAt(s, i) = c THEN i
    ELSE LastIndexFrom(s, c, i - 1)

LastIndexOf(s, c) == LastIndexFrom(s, c, Len(s))

\* String.prototype.replace(from, to) with a string pattern: first occurrence
Replace(s, from, to) ==
    LET At(i) == IF i = 0 THEN s
                 ELSE SubSeq(s, 1, i - 1) \o to \o SubSeq(s, i + Len(from), Len(s))
    IN  Let(IndexOf(s, from), At)

\* s.replace(new RegExp(`${ext}$`), to), ext made of letters only
ReplaceAtEnd(s, ext, to) ==
    IF EndsWith(s, ext) THEN SubSeq(s, 1, Len(s) - Len(ext)) \o to ELSE s

\* the end of the token of s that starts at i: the index before the next sep
RECURSIVE TokenEnd(_, _, _)
TokenEnd(s, sep, i) ==
    IF i > Len(s) \/ CharAt(s, i) = sep THEN i - 1 ELSE TokenEnd(s, sep, i + 1)

\* s.split(sep) for a one-character separator
RECURSIVE SplitFrom(_, _, _)
SplitFrom(s, sep, i) ==
    LET Rest(e) == << SubSeq(s, i, e) >>
                   \o (IF e >= Len(s) THEN << >> ELSE SplitFrom(s, sep, e + 2))
    IN  Let(TokenEnd(s, sep, i), Rest)

Split(s, sep) == SplitFrom(s, sep, 1)

\* the first index at or after i that holds no blank
RECURSIVE SkipBlanks(_, _)
SkipBlanks(s, i) ==
    IF i > Len(s) \/ CharAt(s, i) # " " THEN i ELSE SkipBlanks(s, i + 1)

\* s.split(/\s+/): a run of blanks separates two tokens
RECURSIVE SplitBlanksFrom(_, _)
SplitBlanksFrom(s, i) ==
    LET Rest(e) == << SubSeq(s, i, e) >>
                   \o (IF e >= Len(s) THEN << >>
                       ELSE SplitBlanksFrom(s, SkipBlanks(s, e + 1)))
    IN  Let(TokenEnd(s, " ", i), Rest)

SplitBlanks(s) == SplitBlanksFrom(s, 1)

SeqIncludes(q, x) == \E i \in 1..Len(q) : q[i] = x

-----------------------------------------------------------------------------
(* Node's path module (posix)                                              *)

\* the segments of a path, resolved: "" and "." dropped, ".." pops
RECURSIVE NormalizeSegs(_, _, _)
NormalizeSegs(segs, i, acc) ==
    IF i > Len(segs) THEN acc
    ELSE IF segs[i] = "" \/ segs[i] = "." THEN NormalizeSegs(segs, i + 1, acc)
    ELSE IF segs[i] = ".."
         THEN LET Pop(a) == NormalizeSegs(segs, i + 1,
                               IF Len(a) = 0 THEN a ELSE SubSeq(a, 1, Len(a) - 1))
              IN  Let(acc, Pop)
    ELSE NormalizeSegs(segs, i + 1, Append(acc, segs[i]))

RECURSIVE JoinSegs(_, _)
JoinSegs(segs, i) ==
    IF i > Len(segs) THEN "" ELSE "/" \o segs[i] \o JoinSegs(segs, i + 1)

\* path.resolve(from, to) with an absolute from
PathResolve(from, to) ==
    LET Normal(raw) == NormalizeSegs(raw, 1, << >>)
        Joined(segs) == IF Len(segs) = 0 THEN "/" ELSE JoinSegs(segs, 1)
        Resolved(raw) == Let(Normal(raw), Joined)
    IN  Let(Split(IF StartsWith(to, "/") THEN to ELSE from \o "/" \o to, "/"), Resolved)

\* path.dirname(p)
PathDirname(p) ==
    LET Dir(i) == IF i = 0 THEN "." ELSE IF i = 1 THEN "/" ELSE SubSeq(p, 1, i - 1)
    IN  Let(LastIndexOf(p, "/"), Dir)

\* p without the "/" characters that end it
RECURSIVE StripSlashes(_)
StripSlashes(p) ==
    IF Len(p) > 0 /\ CharAt(p, Len(p)) = "/" THEN StripSlashes(SubSeq(p, 1, Len(p) - 1))
    ELSE p

\* the last portion of p, the "/" characters that end p left out
PathBasename(p) ==
    LET Base(q) == SubSeq(q, LastIndexOf(q, "/") + 1, Len(q))
    IN  Let(StripSlashes(p), Base)

\* path.extname(p): from the last "." of the last portion of p; "" when the
\* portion has no ".", starts with its only ".", or is exactly ".."
PathExtname(p) ==
    LET Ext(base) ==
            LET FromDot(dot) ==
                    IF dot = 0 THEN ""
                    ELSE IF dot = 1 THEN ""
                    ELSE IF base = ".." THEN ""
                    ELSE SubSeq(base, dot, Len(base))
            IN  Let(LastIndexOf(base, "."), FromDot)
    IN  Let(PathBasename(p), Ext)

\* path.extname(p).substr(1)
ExtOf(p) ==
    LET Substr1(e) == SubSeq(e, 2, Len(e))
    IN  Let(PathExtname(p), Substr1)

-----------------------------------------------------------------------------
(* Bounds of the model                                                     *)

\* the number of I/O and process failures the environment injects in one run
MaxFaults == 1

-----------------------------------------------------------------------------
(* The project the build runs on: working directory, scripts, source trees *)

cwd == "/c"

\* config.devOptions.out
OutDir == "/c/o"

Script(id, cmd) == [id |-> id, cmd |-> cmd]

\* config.scripts, in the order of Object.entries
ScriptSets ==
    { <<>>,
      << Script("mount:a", "mount s"), Script("mount:b", "mount p --to q"),
         Script("lintall:t", "tsc"), Script("build:css", "postcss"),
         Script("plugin:css", "plug") >>,
      << Script("run:x", "serve"), Script("mount:t", "mount t"),
         Script("mount:b", "mount p --to q"),
         Script("build:ts", "tsc"), Script("build:tsx", "babel") >>,
      << Script("mount:a", "mount s"), Script("mount:z", "mnt p") >>,
      << Script("mount:k", "mount k"), Script("plugin:css", "plug") >>,
      << Script("mount:a", "mount s") >> }

\* glob.sync("**/*", {cwd: dirDisk, absolute: true, nodir: true})
GlobSync(dirDisk) ==
    IF dirDisk = "/c/s" THEN << "/c/s/i.js", "/c/s/l.svg" >>
    ELSE IF dirDisk = "/c/p" THEN << "/c/p/b.css", "/c/p/m.js" >>
    ELSE IF dirDisk = "/c/t" THEN << "/c/t/a.ts" >>
    ELSE IF dirDisk = "/c/k" THEN << "/c/k/c.css", "/c/k/d.css" >>
    ELSE IF dirDisk = "/c/e" THEN << "/c/e/e.js" >>
    ELSE IF dirDisk = "/c/f" THEN << "/c/f/f.css" >>
    ELSE << >>

\* the import specifiers of a script, in source order: the content of a
\* source file, and of what a worker returns for a source file
SourceCode(f) ==
    IF f = "/c/s/i.js" THEN << "x", "./l.svg" >>
    ELSE IF f = "/c/p/m.js" THEN << "x", "./n", "r", "http://e", "x" >>
    ELSE IF f = "/c/p/b.css" THEN << "../s/l.svg", "x", "./m.js", "./b.css" >>
    ELSE IF f = "/c/t/a.ts" THEN << "./i" >>
    ELSE IF f = "/c/k/c.css" THEN << "./d.css" >>
    ELSE IF f = "/c/k/d.css" THEN << "x" >>
    ELSE << >>

\* the dependency import map, import-map.json
dependencyImportMap == [imports |-> [s \in {"r"} |-> "./r.js"]]

\* src-file-extension-mapping: the output extension of a source extension,
\* "" when the extension has no remap
srcFileExtensionMapping(ext) ==
    IF ext \in {"css", "scss"} THEN "js" ELSE ""

-----------------------------------------------------------------------------
VARIABLES
    scripts,            \* config.scripts as allRegisteredWorkers
    bundleOption,       \* config.devOptions.bundle: "true", "false", "undefined"
    parcelInstalled,    \* require.resolve('parcel-bundler') succeeds
    pc,                 \* the position of command()
    rejection,          \* what command() rejected with, "" when it has not
    relevantWorkers,    \* the scripts this pipeline reports on
    allBuildExtensions, \* the extensions deferred to build/plugin workers
    allWorkerPromises,  \* the lint processes: "running", "ok", "failed"
    mountDirDetails,    \* [id, dirDisk, dirDest] of every mount script
    mi,                 \* the mount being processed
    tasks,              \* the copy/rewrite promises of all mounts started
    allBuildNeededFiles,\* the deferred files of the mount being processed
    includeFileSets,    \* [dirDisk, dirDest, allFiles] of the mounts that completed
    setsDeclared,       \* lines 264-265 have run
    allBuiltFromFiles,  \* the BuiltFileRecord set
    allProxiedFiles,    \* the ProxyRequest set, in insertion order
    wi, si, fi,         \* transform pass: worker, file set and file position
    cur,                \* the transform in flight: outPath and code, and whether the
                        \* worker has given output (stdout, result) and stderr
    pidx,               \* the position of the proxy generator in allProxiedFiles
    messageBus,         \* the events emitted on the status channel, in order
    disk,               \* the files of the output directories, path -> content
    dirs,               \* the output directories that exist
    terminal,           \* history: the terminal actions started, per file
    rewritten,          \* history: the calls of the rewriter callback, in order
    settled,            \* history: the worker invocations that are over, as [id, f]
    failed              \* history: the I/O and process failures of this run

vars == << scripts, bundleOption, parcelInstalled, pc, rejection, relevantWorkers,
           allBuildExtensions, allWorkerPromises, mountDirDetails, mi, tasks,
           allBuildNeededFiles, includeFileSets, setsDeclared, allBuiltFromFiles,
           allProxiedFiles, wi, si, fi, cur, pidx, messageBus, disk, dirs,
           terminal, rewritten, settled, failed >>

configVars == << scripts, bundleOption, parcelInstalled >>

-----------------------------------------------------------------------------
(* Configuration derived at the top of command(), lines 42-54              *)

isBundledHardcoded == bundleOption # "undefined"

isBundled == IF isBundledHardcoded THEN bundleOption = "true" ELSE parcelInstalled

buildDirectoryLoc == IF isBundled THEN cwd \o "/.build" ELSE OutDir

finalDirectoryLoc == OutDir

-----------------------------------------------------------------------------
(* The status channel                                                      *)

Event(type, id, arg) == [type |-> type, id |-> id, arg |-> arg]

Running(id) == Event("WORKER_UPDATE", id, "RUNNING")
Skip(id) == Event("WORKER_UPDATE", id, "SKIP")
MsgError(id) == Event("WORKER_MSG", id, "error")
MsgLog(id) == Event("WORKER_MSG", id, "log")
CompleteOk(id) == Event("WORKER_COMPLETE", id, "")
CompleteError(id) == Event("WORKER_COMPLETE", id, "error")
Missing(spec) == Event("MISSING_WEB_MODULE", spec, "")
ConsoleError == Event("CONSOLE", "", "error")

Emit(evs) == messageBus' = messageBus \o evs

-----------------------------------------------------------------------------
(* The file system of the output directories                               *)

Put(d, path, content) ==
    [p \in DOMAIN d \cup {path} |-> IF p = path THEN content ELSE d[p]]

Under(path, dir) == StartsWith(path, dir \o "/")

\* rimraf.sync(dir)
Rimraf(d, dir) == [p \in {q \in DOMAIN d : ~Under(q, dir)} |-> d[p]]

Copied(f) == [kind |-> "copy", from |-> f, code |-> << >>]
Written(f, code) == [kind |-> "code", from |-> f, code |-> code]

\* what an earlier build left in the output directories
StaleDisk ==
    [p \in {OutDir \o "/old.js", cwd \o "/.build/old.js"} |-> Copied("old")]

\* no worker has been invoked yet
NoTransform == [outPath |-> "", code |-> << >>, stdout |-> FALSE, stderr |-> FALSE]

-----------------------------------------------------------------------------
Init ==
    /\ scripts \in ScriptSets
    /\ bundleOption \in {"true", "false", "undefined"}
    /\ parcelInstalled \in (IF bundleOption = "undefined" THEN BOOLEAN ELSE {FALSE})
    /\ pc = "start"
    /\ rejection = ""
    /\ relevantWorkers = << >>
    /\ allBuildExtensions = << >>
    /\ allWorkerPromises = << >>
    /\ mountDirDetails = << >>
    /\ mi = 1
    /\ tasks = << >>
    /\ allBuildNeededFiles = << >>
    /\ includeFileSets = << >>
    /\ setsDeclared = FALSE
    /\ allBuiltFromFiles = {}
    /\ allProxiedFiles = << >>
    /\ wi = 1 /\ si = 1 /\ fi = 1
    /\ cur = NoTransform
    /\ pidx = 1
    /\ messageBus = << >>
    /\ disk = StaleDisk
    /\ dirs = {}
    /\ terminal = {}
    /\ rewritten = << >>
    /\ settled = {}
    /\ failed = {}

-----------------------------------------------------------------------------
(* The Import Rewriter: the callback handed to transformEsmImports         *)

Rewritten(spec, proxy, missing) == [spec |-> spec, proxy |-> proxy, missing |-> missing]

\* the callback with a bare specifier that the import map does not hold left
\* as it is, and not reported
RewriteSpecifierBareUntouched(spec, outPath, proxying) ==
    LET Relative(ext) ==
            LET extToReplace == srcFileExtensionMapping(ext)
                mapped == IF extToReplace # "" THEN ReplaceAtEnd(spec, ext, extToReplace)
                          ELSE spec
                finalExt == IF extToReplace # "" THEN extToReplace ELSE ext
            IN  IF ext = "" THEN Rewritten(spec \o ".js", "", FALSE)
                ELSE IF proxying /\ finalExt # "js"
                THEN Rewritten(mapped \o ".proxy.js",
                               PathResolve(PathDirname(outPath), mapped), FALSE)
                ELSE Rewritten(mapped, "", FALSE)
    IN  IF StartsWith(spec, "http") THEN Rewritten(spec, "", FALSE)
        ELSE IF StartsWith(spec, "/") \/ StartsWith(spec, "./") \/ StartsWith(spec, "../")
        THEN Let(ExtOf(spec), Relative)
        ELSE IF spec \in DOMAIN dependencyImportMap.imports
        THEN Rewritten(PathResolve("/web_modules", dependencyImportMap.imports[spec]),
                       "", FALSE)
        ELSE Rewritten(spec, "", FALSE)

\* the callback without the early return of lines 232-234: a specifier with no
\* extension goes on to the remap and proxy rules
RewriteSpecifierExtensionlessOn(spec, outPath, proxying) ==
    LET Relative(ext) ==
            LET extToReplace == srcFileExtensionMapping(ext)
                mapped == IF extToReplace # "" THEN ReplaceAtEnd(spec, ext, extToReplace)
                          ELSE spec
                finalExt == IF extToReplace # "" THEN extToReplace ELSE ext
            IN  IF proxying /\ finalExt # "js"
                THEN Rewritten(mapped \o ".proxy.js",
                               PathResolve(PathDirname(outPath), mapped), FALSE)
                ELSE Rewritten(mapped, "", FALSE)
    IN  IF StartsWith(spec, "http") THEN Rewritten(spec, "", FALSE)
        ELSE IF StartsWith(spec, "/") \/ StartsWith(spec, "./") \/ StartsWith(spec, "../")
        THEN Let(ExtOf(spec), Relative)
        ELSE IF spec \in DOMAIN dependencyImportMap.imports
        THEN Rewritten(PathResolve("/web_modules", dependencyImportMap.imports[spec]),
                       "", FALSE)
        ELSE Rewritten("/web_modules/" \o spec \o ".js", "", TRUE)

\* the callback with the proxy rule of lines 240-244 testing the extension the
\* specifier came with, and not the one it was remapped to
RewriteSpecifierProxyOnSourceExt(spec, outPath, proxying) ==
    LET Relative(ext) ==
            LET extToReplace == srcFileExtensionMapping(ext)
                mapped == IF extToReplace # "" THEN ReplaceAtEnd(spec, ext, extToReplace)
                          ELSE spec
            IN  IF ext = "" THEN Rewritten(spec \o ".js", "", FALSE)
                ELSE IF proxying /\ ext # "js"
                THEN Rewritten(mapped \o ".proxy.js",
                               PathResolve(PathDirname(outPath), mapped), FALSE)
                ELSE Rewritten(mapped, "", FALSE)
    IN  IF StartsWith(spec, "http") THEN Rewritten(spec, "", FALSE)
        ELSE IF StartsWith(spec, "/") \/ StartsWith(spec, "./") \/ StartsWith(spec, "../")
        THEN Let(ExtOf(spec), Relative)
        ELSE IF spec \in DOMAIN dependencyImportMap.imports
        THEN Rewritten(PathResolve("/web_modules", dependencyImportMap.imports[spec]),
                       "", FALSE)
        ELSE Rewritten("/web_modules/" \o spec \o ".js", "", TRUE)

\* The callback of the three passes, for one specifier of the script written
\* at outPath. proxy is the path the callback adds to allProxiedFiles ("" when
\* it adds none), missing tells that it emits MISSING_WEB_MODULE.
\* proxying is the condition the pass puts before the proxy rule.
RewriteSpecifier(spec, outPath, proxying) ==
    LET Relative(ext) ==
            LET extToReplace == srcFileExtensionMapping(ext)
                mapped == IF extToReplace # "" THEN ReplaceAtEnd(spec, ext, extToReplace)
                          ELSE spec
                finalExt == IF extToReplace # "" THEN extToReplace ELSE ext
            IN  IF ext = "" THEN Rewritten(spec \o ".js", "", FALSE)
                ELSE IF proxying /\ finalExt # "js"
                THEN Rewritten(mapped \o ".proxy.js",
                               PathResolve(PathDirname(outPath), mapped), FALSE)
                ELSE Rewritten(mapped, "", FALSE)
    IN  IF StartsWith(spec, "http") THEN Rewritten(spec, "", FALSE)
        ELSE IF StartsWith(spec, "/") \/ StartsWith(spec, "./") \/ StartsWith(spec, "../")
        THEN Let(ExtOf(spec), Relative)
        ELSE IF spec \in DOMAIN dependencyImportMap.imports
        THEN Rewritten(PathResolve("/web_modules", dependencyImportMap.imports[spec]),
                       "", FALSE)
        ELSE Rewritten("/web_modules/" \o spec \o ".js", "", TRUE)

\* the condition before the proxy rule: line 240 in the mount pass, line 315
\* in the build-worker pass, line 365 in the plugin-worker pass
MountProxying == ~isBundled
BuildProxying == ~isBundled
PluginProxying == TRUE

Proxying(pass) ==
    IF pass = "mount" THEN MountProxying
    ELSE IF pass = "build" THEN BuildProxying
    ELSE PluginProxying

\* the callback of a pass: lines 227-252, 302-327, 352-377
PassRewriter(pass, spec, outPath) == RewriteSpecifier(spec, outPath, Proxying(pass))

\* one call of the callback: the specifier it got, for the script written at
\* outPath, and the specifier it returned, or that it threw
Call(pass, spec, outPath, result, threw) ==
    [pass |-> pass, spec |-> spec, outPath |-> outPath, result |-> result, threw |-> threw]

\* the results of the callback on the specifiers of code from the i-th on
RECURSIVE RewriteAll(_, _, _, _)
RewriteAll(pass, code, outPath, i) ==
    IF i > Len(code) THEN << >>
    ELSE << PassRewriter(pass, code[i], outPath) >> \o RewriteAll(pass, code, outPath, i + 1)

\* the first call at or after i that uses allProxiedFiles, Len(res) + 1 when
\* there is none
RECURSIVE FirstProxy(_, _)
FirstProxy(res, i) ==
    IF i > Len(res) \/ res[i].proxy # "" THEN i ELSE FirstProxy(res, i + 1)

\* what the first n calls did, and the throw of the next one
Transformed(pass, code, outPath, proxied, res, n) ==
    LET idx == [i \in 1..n |-> i]
        IsMissing(i) == res[i].missing
        IsNewProxy(i) == /\ res[i].proxy # ""
                         /\ ~SeqIncludes(proxied, res[i].proxy)
                         /\ \A j \in 1..(i - 1) : res[j].proxy # res[i].proxy
        EventOf(i) == Missing(code[i])
        ProxyOf(i) == res[i].proxy
        Map(q, F(_)) == [k \in 1..Len(q) |-> F(q[k])]
    IN  [code |-> [i \in 1..n |-> res[i].spec],
         proxied |-> proxied \o Map(SelectSeq(idx, IsNewProxy), ProxyOf),
         events |-> Map(SelectSeq(idx, IsMissing), EventOf),
         calls |-> [i \in 1..n |-> Call(pass, code[i], outPath, res[i].spec, FALSE)]
                   \o (IF n < Len(code) THEN << Call(pass, code[n + 1], outPath, "", TRUE) >>
                       ELSE << >>),
         threw |-> n < Len(code)]

\* transformEsmImports(code, callback): the callback is applied to every
\* specifier of the code in order. A callback that uses allProxiedFiles before
\* its declaration has run throws, and ends the transform.
\*   code: the rewritten specifiers; proxied: allProxiedFiles after the calls;
\*   events: the events emitted; calls: the calls made; threw: a call threw
transformEsmImports(pass, code, outPath, declared, proxied) ==
    LET Done(res) == Transformed(pass, code, outPath, proxied, res,
                                 IF declared THEN Len(code) ELSE FirstProxy(res, 1) - 1)
    IN  Let(RewriteAll(pass, code, outPath, 1), Done)

-----------------------------------------------------------------------------
(* Scheduling: command() is one async function. Between two of its awaits  *)
(* nothing else runs; while it waits, the completions of the I/O it or its *)
(* tasks started are delivered one at a time.                              *)

Finished == pc \in {"done", "rejected", "returned"}

AwaitPcs == {"mountAwait", "buildAwait", "buildRewrite", "buildWrite",
             "pluginAwait", "pluginRewrite", "pluginWrite", "lintAwait",
             "proxyRead", "proxyWrite", "prepare", "parcel"}

TasksOf(m) == {t \in 1..Len(tasks) : tasks[t].mount = m}

\* the promise command() awaits is settled: its continuation runs first
MainReady ==
    \/ /\ pc = "mountAwait"
       /\ \/ \E t \in TasksOf(mi) : tasks[t].st = "rejected"
          \/ \A t \in TasksOf(mi) : tasks[t].st = "fulfilled"
    \/ /\ pc = "lintAwait"
       /\ \/ \E k \in 1..Len(allWorkerPromises) : allWorkerPromises[k].st = "failed"
          \/ \A k \in 1..Len(allWorkerPromises) : allWorkerPromises[k].st = "ok"

EnvMayRun == Finished \/ (pc \in AwaitPcs /\ ~MainReady)

Failure(kind, id, f) == [kind |-> kind, id |-> id, f |-> f]

CanFail == Cardinality(failed) < MaxFaults

Reject(why) == pc' = "rejected" /\ rejection' = why

-----------------------------------------------------------------------------
(* Lines 56-131: validation, output directories, worker registry           *)

IsMount(id) == StartsWith(id, "mount:")
IsBuild(id) == StartsWith(id, "build:")
IsPlugin(id) == StartsWith(id, "plugin:")
IsLint(id) == StartsWith(id, "lintall:")

\* lines 56-60 without the loop of lines 62-81: the mount commands are not looked at
\* before the output directories are reset
ValidateMountsUnchecked ==
    /\ pc = "start"
    /\ IF Len(scripts) = 0
       THEN pc' = "returned" /\ rejection' = rejection
       ELSE pc' = "reset" /\ rejection' = rejection
    /\ UNCHANGED << settled, scripts, bundleOption, parcelInstalled, relevantWorkers,
                    allBuildExtensions, allWorkerPromises, mountDirDetails, mi, tasks,
                    allBuildNeededFiles, includeFileSets, setsDeclared,
                    allBuiltFromFiles, allProxiedFiles, wi, si, fi, cur, pidx,
                    messageBus, disk, dirs, terminal, rewritten, failed >>

\* lines 56-81: nothing to build, or a mount script that is no mount command
ValidateMounts ==
    /\ pc = "start"
    /\ IF Len(scripts) = 0
       THEN pc' = "returned" /\ rejection' = rejection
       ELSE IF \E i \in 1..Len(scripts) :
                  IsMount(scripts[i].id) /\ SplitBlanks(scripts[i].cmd)[1] # "mount"
       THEN Reject("config")
       ELSE pc' = "reset" /\ rejection' = rejection
    /\ UNCHANGED << settled, configVars, relevantWorkers, allBuildExtensions, allWorkerPromises,
                    mountDirDetails, mi, tasks, allBuildNeededFiles, includeFileSets,
                    setsDeclared, allBuiltFromFiles, allProxiedFiles, wi, si, fi, cur,
                    pidx, messageBus, disk, dirs, terminal, rewritten, failed >>

\* lines 83-88
ResetOutput ==
    /\ pc = "reset"
    /\ disk' = Rimraf(Rimraf(disk, finalDirectoryLoc), buildDirectoryLoc)
    /\ dirs' = {finalDirectoryLoc, buildDirectoryLoc}
    /\ pc' = "register"
    /\ UNCHANGED << settled, configVars, rejection, relevantWorkers, allBuildExtensions,
                    allWorkerPromises, mountDirDetails, mi, tasks, allBuildNeededFiles,
                    includeFileSets, setsDeclared, allBuiltFromFiles, allProxiedFiles,
                    wi, si, fi, cur, pidx, messageBus, terminal, rewritten, failed >>

Relevant(script) ==
    IsBuild(script.id) \/ IsPlugin(script.id) \/ IsLint(script.id) \/ IsMount(script.id)

\* lines 100-102: id.split(':')[1].split(',') of every build: and plugin: id
RECURSIVE BuildExtensionsFrom(_, _)
BuildExtensionsFrom(q, i) ==
    IF i > Len(q) THEN << >>
    ELSE (IF IsBuild(q[i].id) \/ IsPlugin(q[i].id)
          THEN Split(Split(q[i].id, ":")[2], ",") ELSE << >>)
         \o BuildExtensionsFrom(q, i + 1)

\* lines 91-131
RegisterWorkers ==
    /\ pc = "register"
    /\ relevantWorkers' = SelectSeq(scripts, Relevant) \o << Script("bundle:*", "NA") >>
    /\ allBuildExtensions' = BuildExtensionsFrom(scripts, 1)
    /\ Emit(IF ~isBundled THEN << Skip("bundle:*") >> ELSE << >>)
    /\ pc' = "lint"
    /\ UNCHANGED << settled, configVars, rejection, allWorkerPromises, mountDirDetails, mi, tasks,
                    allBuildNeededFiles, includeFileSets, setsDeclared, allBuiltFromFiles,
                    allProxiedFiles, wi, si, fi, cur, pidx, disk, dirs, terminal, rewritten, failed >>

-----------------------------------------------------------------------------
(* Lines 133-176: the lint workers                                         *)

IsLintScript(script) == IsLint(script.id)

LintRunning(script) == Running(script.id)
LintPromise(script) == [id |-> script.id, st |-> "running"]

\* lines 133-144: every lintall: process is started, none is awaited
LaunchLint ==
    /\ pc = "lint"
    /\ LET lints == SelectSeq(relevantWorkers, IsLintScript)
       IN  /\ Emit([k \in 1..Len(lints) |-> LintRunning(lints[k])])
           /\ allWorkerPromises' = [k \in 1..Len(lints) |-> LintPromise(lints[k])]
    /\ pc' = "resolve"
    /\ UNCHANGED << settled, configVars, rejection, relevantWorkers, allBuildExtensions,
                    mountDirDetails, mi, tasks, allBuildNeededFiles, includeFileSets,
                    setsDeclared, allBuiltFromFiles, allProxiedFiles, wi, si, fi, cur,
                    pidx, disk, dirs, terminal, rewritten, failed >>

\* lines 145-151: the handlers of a lint process that exits
LintExit(k, ok) ==
    /\ EnvMayRun
    /\ k \in 1..Len(allWorkerPromises)
    /\ allWorkerPromises[k].st = "running"
    /\ ok \/ CanFail
    /\ allWorkerPromises' = [allWorkerPromises EXCEPT ![k].st = IF ok THEN "ok" ELSE "failed"]
    /\ Emit(IF ok THEN << CompleteOk(allWorkerPromises[k].id) >>
            ELSE << MsgError(allWorkerPromises[k].id), CompleteError(allWorkerPromises[k].id) >>)
    /\ failed' = IF ok THEN failed
                 ELSE failed \cup {Failure("lint", allWorkerPromises[k].id, "")}
    /\ UNCHANGED << settled, rewritten, configVars, pc, rejection, relevantWorkers, allBuildExtensions,
                    mountDirDetails, mi, tasks, allBuildNeededFiles, includeFileSets,
                    setsDeclared, allBuiltFromFiles, allProxiedFiles, wi, si, fi, cur,
                    pidx, disk, dirs, terminal >>

-----------------------------------------------------------------------------
(* Lines 178-198: mountDirDetails                                          *)

IsMountScript(script) == IsMount(script.id)

\* yargs(cmdArr).to: the value that follows --to, "" when there is none
YargsTo(cmdArr) ==
    LET hits == {i \in 1..(Len(cmdArr) - 1) : cmdArr[i] = "--to"}
    IN  IF hits = {} THEN ""
        ELSE cmdArr[(CHOOSE i \in hits : \A j \in hits : j <= i) + 1]

\* lines 183-196 with the destination always taken from the mounted directory:
\* the option --to is not read
MountDetailToIgnored(script) ==
    LET cmdArr == Tail(SplitBlanks(script.cmd))
        dirDisk == PathResolve(cwd, cmdArr[1])
        dirDest == PathResolve(buildDirectoryLoc, cmdArr[1])
    IN  [id |-> script.id, dirDisk |-> dirDisk, dirDest |-> dirDest]

\* lines 183-196, for one mount script
MountDetail(script) ==
    LET cmdArr == Tail(SplitBlanks(script.cmd))
        dirDisk == PathResolve(cwd, cmdArr[1])
        dirDest == IF Len(cmdArr) = 1 THEN PathResolve(buildDirectoryLoc, cmdArr[1])
                   ELSE PathResolve(buildDirectoryLoc, YargsTo(cmdArr))
    IN  [id |-> script.id, dirDisk |-> dirDisk, dirDest |-> dirDest]

ResolveMounts ==
    /\ pc = "resolve"
    /\ LET mounts == SelectSeq(relevantWorkers, IsMountScript)
       IN  IF \E k \in 1..Len(mounts) : SplitBlanks(mounts[k].cmd)[1] # "mount"
           THEN Reject("config") /\ mountDirDetails' = mountDirDetails
           ELSE /\ mountDirDetails' = [k \in 1..Len(mounts) |-> MountDetail(mounts[k])]
                /\ pc' = "mount" /\ rejection' = rejection
    /\ mi' = 1
    /\ UNCHANGED << settled, scripts, bundleOption, parcelInstalled, relevantWorkers,
                    allBuildExtensions, allWorkerPromises, tasks, allBuildNeededFiles,
                    includeFileSets, setsDeclared, allBuiltFromFiles, allProxiedFiles,
                    wi, si, fi, cur, pidx, messageBus, disk, dirs, terminal, rewritten, failed >>

-----------------------------------------------------------------------------
(* Lines 200-262: the mount pass                                           *)

Terminal(f, kind, id) == [f |-> f, kind |-> kind, id |-> id]

\* line 216
IsBuildNeeded(f) == SeqIncludes(allBuildExtensions, ExtOf(f))

Task(m, f, outPath, kind, st) ==
    [mount |-> m, f |-> f, outPath |-> outPath, kind |-> kind, st |-> st,
     err |-> "", code |-> << >>]

\* lines 216-226: the synchronous part of the task of the file f, up to the
\* first await
TaskOf(m, f) ==
    IF IsBuildNeeded(f) THEN Task(m, f, "", "deferred", "fulfilled")
    ELSE IF PathExtname(f) # ".js"
    THEN Task(m, f, Replace(f, mountDirDetails[m].dirDisk, mountDirDetails[m].dirDest),
              "copy", "copying")
    ELSE Task(m, f, Replace(f, mountDirDetails[m].dirDisk, mountDirDetails[m].dirDest),
              "rewrite", "reading")

\* lines 214-215: one task per file, f = path.resolve(f)
TaskFor(m, file) == Let(PathResolve("/", file), LAMBDA f : TaskOf(m, f))

TasksFor(m, allFiles) == [k \in 1..Len(allFiles) |-> TaskFor(m, allFiles[k])]

IsDeferred(task) == task.kind = "deferred"

FilesOf(q) == [k \in 1..Len(q) |-> q[k].f]

\* lines 201-214: a mount starts; glob.sync throws, or every file gets its task
MountStart(ok) ==
    /\ pc = "mount"
    /\ mi <= Len(mountDirDetails)
    /\ ok \/ CanFail
    /\ LET id == mountDirDetails[mi].id
       IN  IF ok
           THEN \E started \in {TasksFor(mi, GlobSync(mountDirDetails[mi].dirDisk))} :
                /\ Emit(<< Running(id) >>)
                /\ tasks' = tasks \o started
                /\ allBuildNeededFiles' = FilesOf(SelectSeq(started, IsDeferred))
                /\ terminal' = terminal \cup
                       {Terminal(started[k].f, started[k].kind, id) :
                            k \in {j \in 1..Len(started) : started[j].kind # "deferred"}}
                /\ pc' = "mountAwait"
                /\ UNCHANGED << mi, failed >>
           ELSE /\ Emit(<< Running(id), MsgError(id), CompleteError(id) >>)
                /\ mi' = mi + 1
                /\ failed' = failed \cup {Failure("glob", id, "")}
                /\ UNCHANGED << tasks, allBuildNeededFiles, terminal, pc >>
    /\ UNCHANGED << settled, rewritten, scripts, bundleOption, parcelInstalled, rejection, relevantWorkers,
                    allBuildExtensions, allWorkerPromises, mountDirDetails,
                    includeFileSets, setsDeclared, allBuiltFromFiles, allProxiedFiles,
                    wi, si, fi, cur, pidx, disk, dirs >>

\* a write into the build directory needs the directory
CanWrite == buildDirectoryLoc \in dirs

\* line 223: fs.copyFile settles
TaskCopy(t, ok) ==
    /\ EnvMayRun
    /\ t \in 1..Len(tasks)
    /\ tasks[t].st = "copying"
    /\ IF ok THEN CanWrite ELSE CanFail \/ ~CanWrite
    /\ tasks' = [tasks EXCEPT ![t].st = IF ok THEN "fulfilled" ELSE "rejected",
                              ![t].err = IF ok THEN "" ELSE "Error"]
    /\ disk' = IF ok THEN Put(disk, tasks[t].outPath, Copied(tasks[t].f)) ELSE disk
    /\ failed' = IF ok \/ ~CanWrite THEN failed
                 ELSE failed \cup {Failure("copy", mountDirDetails[tasks[t].mount].id, tasks[t].f)}
    /\ UNCHANGED << settled, rewritten, scripts, bundleOption, parcelInstalled, pc, rejection,
                    relevantWorkers, allBuildExtensions, allWorkerPromises,
                    mountDirDetails, mi, allBuildNeededFiles, includeFileSets,
                    setsDeclared, allBuiltFromFiles, allProxiedFiles, wi, si, fi, cur,
                    pidx, messageBus, dirs, terminal >>

\* line 226: fs.readFile settles
TaskRead(t, ok) ==
    /\ EnvMayRun
    /\ t \in 1..Len(tasks)
    /\ tasks[t].st = "reading"
    /\ ok \/ CanFail
    /\ tasks' = [tasks EXCEPT ![t].st = IF ok THEN "rewriting" ELSE "rejected",
                              ![t].err = IF ok THEN "" ELSE "Error",
                              ![t].code = IF ok THEN SourceCode(tasks[t].f) ELSE << >>]
    /\ failed' = IF ok THEN failed
                 ELSE failed \cup {Failure("read", mountDirDetails[tasks[t].mount].id, tasks[t].f)}
    /\ UNCHANGED << settled, rewritten, scripts, bundleOption, parcelInstalled, pc, rejection,
                    relevantWorkers, allBuildExtensions, allWorkerPromises,
                    mountDirDetails, mi, allBuildNeededFiles, includeFileSets,
                    setsDeclared, allBuiltFromFiles, allProxiedFiles, wi, si, fi, cur,
                    pidx, messageBus, disk, dirs, terminal >>

\* lines 227-253: the imports of the script are rewritten and fs.writeFile
\* is started, or the callback throws: line 242 uses allProxiedFiles, which
\* line 265 declares (a ReferenceError; a TypeError on undefined when the
\* build turns const into var: the task rejects either way)
TaskRewrite(t) ==
    /\ EnvMayRun
    /\ t \in 1..Len(tasks)
    /\ tasks[t].st = "rewriting"
    /\ \E r \in {transformEsmImports("mount", tasks[t].code, tasks[t].outPath,
                                     setsDeclared, allProxiedFiles)} :
           /\ Emit(r.events)
           /\ allProxiedFiles' = r.proxied
           /\ rewritten' = rewritten \o r.calls
           /\ tasks' = [tasks EXCEPT ![t].st = IF r.threw THEN "rejected" ELSE "writing",
                                     ![t].err = IF r.threw THEN "ReferenceError" ELSE "",
                                     ![t].code = r.code]
    /\ UNCHANGED << settled, scripts, bundleOption, parcelInstalled, pc, rejection,
                    relevantWorkers, allBuildExtensions, allWorkerPromises,
                    mountDirDetails, mi, allBuildNeededFiles, includeFileSets,
                    setsDeclared, allBuiltFromFiles, wi, si, fi, cur, pidx, disk, dirs,
                    terminal, failed >>

\* line 253: fs.writeFile settles
TaskWrite(t, ok) ==
    /\ EnvMayRun
    /\ t \in 1..Len(tasks)
    /\ tasks[t].st = "writing"
    /\ IF ok THEN CanWrite ELSE CanFail \/ ~CanWrite
    /\ tasks' = [tasks EXCEPT ![t].st = IF ok THEN "fulfilled" ELSE "rejected",
                              ![t].err = IF ok THEN "" ELSE "Error"]
    /\ disk' = IF ok THEN Put(disk, tasks[t].outPath, Written(tasks[t].f, tasks[t].code))
               ELSE disk
    /\ failed' = IF ok \/ ~CanWrite THEN failed
                 ELSE failed \cup {Failure("write", mountDirDetails[tasks[t].mount].id, tasks[t].f)}
    /\ UNCHANGED << settled, rewritten, scripts, bundleOption, parcelInstalled, pc, rejection,
                    relevantWorkers, allBuildExtensions, allWorkerPromises,
                    mountDirDetails, mi, allBuildNeededFiles, includeFileSets,
                    setsDeclared, allBuiltFromFiles, allProxiedFiles, wi, si, fi, cur,
                    pidx, messageBus, dirs, terminal >>

\* Promise.all settles, with a catch block that reports nothing
MountSettleUnreported ==
    /\ pc = "mountAwait"
    /\ MainReady
    /\ LET id == mountDirDetails[mi].id
       IN  IF \E t \in TasksOf(mi) : tasks[t].st = "rejected"
           THEN /\ Emit(<< >>)
                /\ includeFileSets' = includeFileSets
           ELSE /\ includeFileSets' = Append(includeFileSets,
                       [dirDisk |-> mountDirDetails[mi].dirDisk,
                        dirDest |-> mountDirDetails[mi].dirDest,
                        allFiles |-> allBuildNeededFiles])
                /\ Emit(<< CompleteOk(id) >>)
    /\ mi' = mi + 1
    /\ pc' = "mount"
    /\ UNCHANGED << settled, scripts, bundleOption, parcelInstalled, rejection, relevantWorkers,
                    allBuildExtensions, allWorkerPromises, mountDirDetails, tasks,
                    allBuildNeededFiles, setsDeclared, allBuiltFromFiles,
                    allProxiedFiles, wi, si, fi, cur, pidx, disk, dirs, terminal,
                    rewritten, failed >>

\* Promise.all settles, with a catch block that reports and throws again
MountSettleRethrown ==
    /\ pc = "mountAwait"
    /\ MainReady
    /\ LET id == mountDirDetails[mi].id
       IN  IF \E t \in TasksOf(mi) : tasks[t].st = "rejected"
           THEN /\ Emit(<< MsgError(id), CompleteError(id) >>)
                /\ includeFileSets' = includeFileSets
                /\ Reject("mount")
           ELSE /\ includeFileSets' = Append(includeFileSets,
                       [dirDisk |-> mountDirDetails[mi].dirDisk,
                        dirDest |-> mountDirDetails[mi].dirDest,
                        allFiles |-> allBuildNeededFiles])
                /\ Emit(<< CompleteOk(id) >>)
                /\ pc' = "mount" /\ rejection' = rejection
    /\ mi' = mi + 1
    /\ UNCHANGED << settled, scripts, bundleOption, parcelInstalled, relevantWorkers,
                    allBuildExtensions, allWorkerPromises, mountDirDetails, tasks,
                    allBuildNeededFiles, setsDeclared, allBuiltFromFiles,
                    allProxiedFiles, wi, si, fi, cur, pidx, disk, dirs, terminal,
                    rewritten, failed >>

\* lines 213, 256-261: Promise.all settles: it is fulfilled when every task
\* is, and rejected as soon as one task is
MountSettle ==
    /\ pc = "mountAwait"
    /\ MainReady
    /\ LET id == mountDirDetails[mi].id
       IN  IF \E t \in TasksOf(mi) : tasks[t].st = "rejected"
           THEN /\ Emit(<< MsgError(id), CompleteError(id) >>)
                /\ includeFileSets' = includeFileSets
           ELSE /\ includeFileSets' = Append(includeFileSets,
                       [dirDisk |-> mountDirDetails[mi].dirDisk,
                        dirDest |-> mountDirDetails[mi].dirDest,
                        allFiles |-> allBuildNeededFiles])
                /\ Emit(<< CompleteOk(id) >>)
    /\ mi' = mi + 1
    /\ pc' = "mount"
    /\ UNCHANGED << settled, scripts, bundleOption, parcelInstalled, rejection, relevantWorkers,
                    allBuildExtensions, allWorkerPromises, mountDirDetails, tasks,
                    allBuildNeededFiles, setsDeclared, allBuiltFromFiles,
                    allProxiedFiles, wi, si, fi, cur, pidx, disk, dirs, terminal,
                    rewritten, failed >>

\* lines 264-265: the two sets are declared after the mount loop
DeclareSets ==
    /\ pc = "mount"
    /\ mi > Len(mountDirDetails)
    /\ setsDeclared' = TRUE
    /\ allBuiltFromFiles' = {}
    /\ allProxiedFiles' = << >>
    /\ wi' = 1
    /\ pc' = "worker"
    /\ UNCHANGED << settled, scripts, bundleOption, parcelInstalled, rejection, relevantWorkers,
                    allBuildExtensions, allWorkerPromises, mountDirDetails, mi, tasks,
                    allBuildNeededFiles, includeFileSets, si, fi, cur, pidx,
                    messageBus, disk, dirs, terminal, rewritten, failed >>

-----------------------------------------------------------------------------
(* Lines 266-385: the transform-worker pass                                *)

\* line 274
Matches(id, fileExtension) ==
    Includes(id, ":" \o fileExtension) \/ Includes(id, "," \o fileExtension)

CurId == relevantWorkers[wi].id
CurSet == includeFileSets[si]
CurFile == includeFileSets[si].allFiles[fi]

\* lines 266-270, 385: the next script of relevantWorkers
WorkerLoop ==
    /\ pc = "worker"
    /\ IF wi > Len(relevantWorkers)
       THEN /\ pc' = "lintAwait"
            /\ UNCHANGED << wi, si, fi, messageBus >>
       ELSE IF ~IsBuild(CurId) /\ ~IsPlugin(CurId)
       THEN /\ wi' = wi + 1
            /\ UNCHANGED << pc, si, fi, messageBus >>
       ELSE /\ Emit(<< Running(CurId) >>)
            /\ si' = 1 /\ fi' = 1
            /\ pc' = "file"
            /\ wi' = wi
    /\ UNCHANGED << settled, scripts, bundleOption, parcelInstalled, rejection, relevantWorkers,
                    allBuildExtensions, allWorkerPromises, mountDirDetails, mi, tasks,
                    allBuildNeededFiles, includeFileSets, setsDeclared,
                    allBuiltFromFiles, allProxiedFiles, cur, pidx, disk, dirs,
                    terminal, rewritten, failed >>

\* lines 271-287 and 333-337 with the transform started and not awaited: the
\* loop goes on to the next file while the process or the plugin is at work
FileLoopNotAwaited ==
    /\ pc = "file"
    /\ IF si > Len(includeFileSets)
       THEN /\ Emit(<< CompleteOk(CurId) >>)
            /\ wi' = wi + 1
            /\ pc' = "worker"
            /\ UNCHANGED << si, fi, terminal >>
       ELSE IF fi > Len(CurSet.allFiles)
       THEN /\ si' = si + 1 /\ fi' = 1
            /\ UNCHANGED << messageBus, wi, pc, terminal >>
       ELSE IF ~Matches(CurId, ExtOf(CurFile))
       THEN /\ fi' = fi + 1
            /\ UNCHANGED << messageBus, wi, pc, si, terminal >>
       ELSE /\ fi' = fi + 1
            /\ terminal' = terminal \cup
                   {Terminal(CurFile, IF IsBuild(CurId) THEN "build" ELSE "plugin", CurId)}
            /\ UNCHANGED << messageBus, wi, pc, si >>
    /\ UNCHANGED << scripts, bundleOption, parcelInstalled, rejection, relevantWorkers,
                    allBuildExtensions, allWorkerPromises, mountDirDetails, mi, tasks,
                    allBuildNeededFiles, includeFileSets, setsDeclared,
                    allBuiltFromFiles, allProxiedFiles, cur, pidx, disk, dirs,
                    rewritten, settled, failed >>

\* lines 271-287, 333-337, 384: the next file of the worker; a file the
\* worker's id matches is handed to the process or to the plugin
FileLoop ==
    /\ pc = "file"
    /\ IF si > Len(includeFileSets)
       THEN /\ Emit(<< CompleteOk(CurId) >>)
            /\ wi' = wi + 1
            /\ pc' = "worker"
            /\ UNCHANGED << si, fi, terminal >>
       ELSE IF fi > Len(CurSet.allFiles)
       THEN /\ si' = si + 1 /\ fi' = 1
            /\ UNCHANGED << messageBus, wi, pc, terminal >>
       ELSE IF ~Matches(CurId, ExtOf(CurFile))
       THEN /\ fi' = fi + 1
            /\ UNCHANGED << messageBus, wi, pc, si, terminal >>
       ELSE /\ pc' = IF IsBuild(CurId) THEN "buildAwait" ELSE "pluginAwait"
            /\ terminal' = terminal \cup
                   {Terminal(CurFile, IF IsBuild(CurId) THEN "build" ELSE "plugin", CurId)}
            /\ UNCHANGED << messageBus, wi, si, fi >>
    /\ UNCHANGED << settled, scripts, bundleOption, parcelInstalled, rejection, relevantWorkers,
                    allBuildExtensions, allWorkerPromises, mountDirDetails, mi, tasks,
                    allBuildNeededFiles, includeFileSets, setsDeclared,
                    allBuiltFromFiles, allProxiedFiles, cur, pidx, disk, dirs, rewritten, failed >>

\* one invocation of a build: or plugin: worker: the worker and the file
Invocation(id, f) == [id |-> id, f |-> f]

\* lines 294-299, 344-349: the destination of the output of the current file
OutPathOf(f, dirDisk, dirDest) ==
    LET outPath == Replace(f, dirDisk, dirDest)
        extToFind == ExtOf(f)
        extToReplace == srcFileExtensionMapping(extToFind)
    IN  IF extToReplace # "" THEN ReplaceAtEnd(outPath, extToFind, extToReplace)
        ELSE outPath

\* lines 281-301 with a non-empty stderr taken for a failure of the file: the
\* stderr is logged and the file is skipped, whatever the process has printed
BuildExitStderrSkips(ok, stderr, stdout) ==
    /\ pc = "buildAwait"
    /\ ok \/ CanFail
    /\ IF ~ok
       THEN /\ Reject("build")
            /\ failed' = failed \cup {Failure("build", CurId, CurFile)}
            /\ settled' = settled \cup {Invocation(CurId, CurFile)}
            /\ UNCHANGED << messageBus, fi, cur >>
       ELSE /\ Emit(IF stderr THEN << ConsoleError >> ELSE << >>)
            /\ failed' = failed
            /\ rejection' = rejection
            /\ IF ~stdout \/ stderr
               THEN /\ fi' = fi + 1
                    /\ pc' = "file"
                    /\ cur' = [cur EXCEPT !.stdout = stdout, !.stderr = stderr]
                    /\ settled' = settled \cup {Invocation(CurId, CurFile)}
               ELSE \E outPath \in {OutPathOf(CurFile, CurSet.dirDisk, CurSet.dirDest)} :
                        /\ cur' = [outPath |-> outPath, code |-> SourceCode(CurFile),
                                   stdout |-> TRUE, stderr |-> stderr]
                        /\ pc' = IF PathExtname(outPath) = ".js" THEN "buildRewrite"
                                 ELSE "buildWrite"
                        /\ fi' = fi
                        /\ settled' = settled
    /\ UNCHANGED << scripts, bundleOption, parcelInstalled, relevantWorkers,
                    allBuildExtensions, allWorkerPromises, mountDirDetails, mi, tasks,
                    allBuildNeededFiles, includeFileSets, setsDeclared,
                    allBuiltFromFiles, allProxiedFiles, wi, si, pidx, disk, dirs,
                    terminal, rewritten >>

\* lines 281-301: the process of a build worker exits. A non-zero exit makes
\* the awaited promise reject, and nothing catches it.
BuildExit(ok, stderr, stdout) ==
    /\ pc = "buildAwait"
    /\ ok \/ CanFail
    /\ IF ~ok
       THEN /\ Reject("build")
            /\ failed' = failed \cup {Failure("build", CurId, CurFile)}
            /\ settled' = settled \cup {Invocation(CurId, CurFile)}
            /\ UNCHANGED << messageBus, fi, cur >>
       ELSE /\ Emit(IF stderr THEN << ConsoleError >> ELSE << >>)
            /\ failed' = failed
            /\ rejection' = rejection
            /\ IF ~stdout
               THEN /\ fi' = fi + 1
                    /\ pc' = "file"
                    /\ cur' = [cur EXCEPT !.stdout = FALSE, !.stderr = stderr]
                    /\ settled' = settled \cup {Invocation(CurId, CurFile)}
               ELSE \E outPath \in {OutPathOf(CurFile, CurSet.dirDisk, CurSet.dirDest)} :
                        /\ cur' = [outPath |-> outPath, code |-> SourceCode(CurFile),
                                   stdout |-> TRUE, stderr |-> stderr]
                        /\ pc' = IF PathExtname(outPath) = ".js" THEN "buildRewrite"
                                 ELSE "buildWrite"
                        /\ fi' = fi
                        /\ settled' = settled
    /\ UNCHANGED << rewritten, scripts, bundleOption, parcelInstalled, relevantWorkers,
                    allBuildExtensions, allWorkerPromises, mountDirDetails, mi, tasks,
                    allBuildNeededFiles, includeFileSets, setsDeclared,
                    allBuiltFromFiles, allProxiedFiles, wi, si, pidx, disk, dirs,
                    terminal >>

\* lines 302-327
BuildRewrite ==
    /\ pc = "buildRewrite"
    /\ \E r \in {transformEsmImports("build", cur.code, cur.outPath, setsDeclared,
                                     allProxiedFiles)} :
           /\ Emit(r.events)
           /\ allProxiedFiles' = r.proxied
           /\ rewritten' = rewritten \o r.calls
           /\ cur' = [cur EXCEPT !.code = r.code]
    /\ pc' = "buildWrite"
    /\ UNCHANGED << settled, scripts, bundleOption, parcelInstalled, rejection, relevantWorkers,
                    allBuildExtensions, allWorkerPromises, mountDirDetails, mi, tasks,
                    allBuildNeededFiles, includeFileSets, setsDeclared,
                    allBuiltFromFiles, wi, si, fi, pidx, disk, dirs, terminal, failed >>

\* lines 329-331
BuildWrite(ok) ==
    /\ pc = "buildWrite"
    /\ ok \/ CanFail
    /\ settled' = settled \cup {Invocation(CurId, CurFile)}
    /\ IF ok
       THEN /\ disk' = Put(disk, cur.outPath, Written(CurFile, cur.code))
            /\ allBuiltFromFiles' = allBuiltFromFiles \cup {CurFile}
            /\ fi' = fi + 1
            /\ pc' = "file"
            /\ UNCHANGED << rejection, failed >>
       ELSE /\ Reject("write")
            /\ failed' = failed \cup {Failure("buildWrite", CurId, CurFile)}
            /\ UNCHANGED << disk, allBuiltFromFiles, fi >>
    /\ UNCHANGED << rewritten, scripts, bundleOption, parcelInstalled, relevantWorkers,
                    allBuildExtensions, allWorkerPromises, mountDirDetails, mi, tasks,
                    allBuildNeededFiles, includeFileSets, setsDeclared,
                    allProxiedFiles, wi, si, cur, pidx, messageBus, dirs, terminal >>

\* lines 334-350: the build() of a plugin settles
PluginReturn(ok) ==
    /\ pc = "pluginAwait"
    /\ ok \/ CanFail
    /\ IF ~ok
       THEN /\ Emit(<< ConsoleError, CompleteError(CurId) >>)
            /\ fi' = fi + 1
            /\ pc' = "file"
            /\ failed' = failed \cup {Failure("plugin", CurId, CurFile)}
            /\ cur' = cur
            /\ settled' = settled \cup {Invocation(CurId, CurFile)}
       ELSE \E outPath \in {OutPathOf(CurFile, CurSet.dirDisk, CurSet.dirDest)} :
                /\ cur' = [outPath |-> outPath, code |-> SourceCode(CurFile),
                           stdout |-> TRUE, stderr |-> FALSE]
                /\ pc' = IF PathExtname(outPath) = ".js" THEN "pluginRewrite"
                         ELSE "pluginWrite"
                /\ UNCHANGED << messageBus, fi, failed, settled >>
    /\ UNCHANGED << rewritten, scripts, bundleOption, parcelInstalled, rejection, relevantWorkers,
                    allBuildExtensions, allWorkerPromises, mountDirDetails, mi, tasks,
                    allBuildNeededFiles, includeFileSets, setsDeclared,
                    allBuiltFromFiles, allProxiedFiles, wi, si, pidx, disk, dirs,
                    terminal >>

\* lines 352-377
PluginRewrite ==
    /\ pc = "pluginRewrite"
    /\ \E r \in {transformEsmImports("plugin", cur.code, cur.outPath, setsDeclared,
                                     allProxiedFiles)} :
           /\ Emit(r.events)
           /\ allProxiedFiles' = r.proxied
           /\ rewritten' = rewritten \o r.calls
           /\ cur' = [cur EXCEPT !.code = r.code]
    /\ pc' = "pluginWrite"
    /\ UNCHANGED << settled, scripts, bundleOption, parcelInstalled, rejection, relevantWorkers,
                    allBuildExtensions, allWorkerPromises, mountDirDetails, mi, tasks,
                    allBuildNeededFiles, includeFileSets, setsDeclared,
                    allBuiltFromFiles, wi, si, fi, pidx, disk, dirs, terminal, failed >>

\* lines 379-380
PluginWrite(ok) ==
    /\ pc = "pluginWrite"
    /\ ok \/ CanFail
    /\ settled' = settled \cup {Invocation(CurId, CurFile)}
    /\ IF ok
       THEN /\ disk' = Put(disk, cur.outPath, Written(CurFile, cur.code))
            /\ fi' = fi + 1
            /\ pc' = "file"
            /\ UNCHANGED << rejection, failed >>
       ELSE /\ Reject("write")
            /\ failed' = failed \cup {Failure("pluginWrite", CurId, CurFile)}
            /\ UNCHANGED << disk, fi >>
    /\ UNCHANGED << rewritten, scripts, bundleOption, parcelInstalled, relevantWorkers,
                    allBuildExtensions, allWorkerPromises, mountDirDetails, mi, tasks,
                    allBuildNeededFiles, includeFileSets, setsDeclared,
                    allBuiltFromFiles, allProxiedFiles, wi, si, cur, pidx, messageBus,
                    dirs, terminal >>

-----------------------------------------------------------------------------
(* Lines 387-396: the lint workers are awaited, the proxies are generated  *)

\* line 387 without the await: the lint workers are not waited for
AwaitLintSkipped ==
    /\ pc = "lintAwait"
    /\ pc' = "proxy"
    /\ pidx' = 1
    /\ UNCHANGED << settled, scripts, bundleOption, parcelInstalled, rejection, relevantWorkers,
                    allBuildExtensions, allWorkerPromises, mountDirDetails, mi, tasks,
                    allBuildNeededFiles, includeFileSets, setsDeclared,
                    allBuiltFromFiles, allProxiedFiles, wi, si, fi, cur, messageBus,
                    disk, dirs, terminal, rewritten, failed >>

\* line 387: Promise.all(allWorkerPromises)
AwaitLint ==
    /\ pc = "lintAwait"
    /\ MainReady
    /\ IF \E k \in 1..Len(allWorkerPromises) : allWorkerPromises[k].st = "failed"
       THEN Reject("lint")
       ELSE pc' = "proxy" /\ rejection' = rejection
    /\ pidx' = 1
    /\ UNCHANGED << settled, scripts, bundleOption, parcelInstalled, relevantWorkers,
                    allBuildExtensions, allWorkerPromises, mountDirDetails, mi, tasks,
                    allBuildNeededFiles, includeFileSets, setsDeclared,
                    allBuiltFromFiles, allProxiedFiles, wi, si, fi, cur, messageBus,
                    disk, dirs, terminal, rewritten, failed >>

\* line 389: the iteration of the set sees what is added while it runs
ProxyLoop ==
    /\ pc = "proxy"
    /\ pc' = IF pidx > Len(allProxiedFiles) THEN "bundle" ELSE "proxyRead"
    /\ UNCHANGED << settled, scripts, bundleOption, parcelInstalled, rejection, relevantWorkers,
                    allBuildExtensions, allWorkerPromises, mountDirDetails, mi, tasks,
                    allBuildNeededFiles, includeFileSets, setsDeclared,
                    allBuiltFromFiles, allProxiedFiles, wi, si, fi, cur, pidx,
                    messageBus, disk, dirs, terminal, rewritten, failed >>

\* line 390: fs.readFile of the proxied file
ProxyRead ==
    /\ pc = "proxyRead"
    /\ IF allProxiedFiles[pidx] \in DOMAIN disk
       THEN pc' = "proxyWrite" /\ rejection' = rejection
       ELSE Reject("proxy")
    /\ UNCHANGED << settled, scripts, bundleOption, parcelInstalled, relevantWorkers,
                    allBuildExtensions, allWorkerPromises, mountDirDetails, mi, tasks,
                    allBuildNeededFiles, includeFileSets, setsDeclared,
                    allBuiltFromFiles, allProxiedFiles, wi, si, fi, cur, pidx,
                    messageBus, disk, dirs, terminal, rewritten, failed >>

Proxy(proxiedFileLoc) ==
    [kind |-> "proxy", from |-> proxiedFileLoc,
     code |-> << SubSeq(proxiedFileLoc, Len(buildDirectoryLoc) + 1, Len(proxiedFileLoc)) >>]

\* lines 391-395
ProxyWrite(ok) ==
    /\ pc = "proxyWrite"
    /\ ok \/ CanFail
    /\ IF ok
       THEN /\ disk' = Put(disk, allProxiedFiles[pidx] \o ".proxy.js",
                           Proxy(allProxiedFiles[pidx]))
            /\ pidx' = pidx + 1
            /\ pc' = "proxy"
            /\ UNCHANGED << rejection, failed >>
       ELSE /\ Reject("proxy")
            /\ failed' = failed \cup {Failure("proxyWrite", "", allProxiedFiles[pidx])}
            /\ UNCHANGED << disk, pidx >>
    /\ UNCHANGED << settled, rewritten, scripts, bundleOption, parcelInstalled, relevantWorkers,
                    allBuildExtensions, allWorkerPromises, mountDirDetails, mi, tasks,
                    allBuildNeededFiles, includeFileSets, setsDeclared,
                    allBuiltFromFiles, allProxiedFiles, wi, si, fi, cur, messageBus,
                    dirs, terminal >>

-----------------------------------------------------------------------------
(* Lines 398-489: the bundle stage                                         *)

Bundle == "bundle:*"

\* lines 398-412
BundleStage ==
    /\ pc = "bundle"
    /\ IF ~isBundled
       THEN /\ Emit(<< CompleteOk(Bundle), Skip(Bundle) >>
                    \o (IF ~isBundledHardcoded THEN << MsgLog(Bundle) >> ELSE << >>))
            /\ pc' = "cleanup"
       ELSE /\ Emit(<< Running(Bundle) >>)
            /\ pc' = "prepare"
    /\ UNCHANGED << settled, scripts, bundleOption, parcelInstalled, rejection, relevantWorkers,
                    allBuildExtensions, allWorkerPromises, mountDirDetails, mi, tasks,
                    allBuildNeededFiles, includeFileSets, setsDeclared,
                    allBuiltFromFiles, allProxiedFiles, wi, si, fi, cur, pidx, disk,
                    dirs, terminal, rewritten, failed >>

\* lines 417-420: copy(buildDirectoryLoc, finalDirectoryLoc, {filter})
CopyFilter(srcLoc) == srcLoc \notin allBuiltFromFiles

FinalLoc(p) == Replace(p, buildDirectoryLoc, finalDirectoryLoc)

CopyBuildToFinal(d) ==
    LET Copy(kept) ==
            [q \in DOMAIN d \cup {FinalLoc(p) : p \in kept} |->
                IF \E p \in kept : FinalLoc(p) = q
                THEN d[CHOOSE p \in kept : FinalLoc(p) = q] ELSE d[q]]
    IN  Let({p \in DOMAIN d : Under(p, buildDirectoryLoc) /\ CopyFilter(p)}, Copy)

\* lines 414-458: the copy fails ("copy"), a later step of the preparation
\* fails ("manifest"), or the directory is prepared ("ok")
PrepareBuildDirectoryForParcel(outcome) ==
    /\ pc = "prepare"
    /\ outcome = "ok" \/ CanFail
    /\ IF outcome = "ok"
       THEN /\ disk' = Put(Put(CopyBuildToFinal(disk),
                               buildDirectoryLoc \o "/package.json", Copied("package.json")),
                           buildDirectoryLoc \o "/.babelrc", Copied(".babelrc"))
            /\ pc' = "parcel"
            /\ UNCHANGED << rejection, failed, messageBus >>
       ELSE /\ Emit(IF outcome = "copy" THEN << MsgError(Bundle), CompleteError(Bundle) >>
                    ELSE << >>)
            /\ Reject("prepare")
            /\ failed' = failed \cup {Failure(outcome, Bundle, "")}
            /\ disk' = disk
    /\ UNCHANGED << settled, rewritten, scripts, bundleOption, parcelInstalled, relevantWorkers,
                    allBuildExtensions, allWorkerPromises, mountDirDetails, mi, tasks,
                    allBuildNeededFiles, includeFileSets, setsDeclared,
                    allBuiltFromFiles, allProxiedFiles, wi, si, fi, cur, pidx, dirs,
                    terminal >>

\* the bundler exits, and its exit status is reported but not thrown
ParcelExitSwallowed(ok) ==
    /\ pc = "parcel"
    /\ ok \/ CanFail
    /\ Emit(IF ok THEN << CompleteOk(Bundle) >>
            ELSE << MsgError(Bundle), CompleteError(Bundle) >>)
    /\ pc' = "cleanup"
    /\ failed' = IF ok THEN failed ELSE failed \cup {Failure("parcel", Bundle, "")}
    /\ UNCHANGED << settled, rewritten, scripts, bundleOption, parcelInstalled, rejection,
                    relevantWorkers, allBuildExtensions, allWorkerPromises,
                    mountDirDetails, mi, tasks, allBuildNeededFiles, includeFileSets,
                    setsDeclared, allBuiltFromFiles, allProxiedFiles, wi, si, fi, cur,
                    pidx, disk, dirs, terminal >>

\* lines 466-484: the bundler exits
ParcelExit(ok) ==
    /\ pc = "parcel"
    /\ ok \/ CanFail
    /\ IF ok
       THEN /\ Emit(<< CompleteOk(Bundle) >>)
            /\ pc' = "cleanup"
            /\ UNCHANGED << rejection, failed >>
       ELSE /\ Emit(<< MsgError(Bundle), CompleteError(Bundle) >>)
            /\ Reject("bundle")
            /\ failed' = failed \cup {Failure("parcel", Bundle, "")}
    /\ UNCHANGED << settled, rewritten, scripts, bundleOption, parcelInstalled, relevantWorkers,
                    allBuildExtensions, allWorkerPromises, mountDirDetails, mi, tasks,
                    allBuildNeededFiles, includeFileSets, setsDeclared,
                    allBuiltFromFiles, allProxiedFiles, wi, si, fi, cur, pidx, disk,
                    dirs, terminal >>

\* lines 487-489
Cleanup ==
    /\ pc = "cleanup"
    /\ IF finalDirectoryLoc # buildDirectoryLoc
       THEN /\ disk' = Rimraf(disk, buildDirectoryLoc)
            /\ dirs' = dirs \ {buildDirectoryLoc}
       ELSE UNCHANGED << disk, dirs >>
    /\ pc' = "done"
    /\ UNCHANGED << settled, scripts, bundleOption, parcelInstalled, rejection, relevantWorkers,
                    allBuildExtensions, allWorkerPromises, mountDirDetails, mi, tasks,
                    allBuildNeededFiles, includeFileSets, setsDeclared,
                    allBuiltFromFiles, allProxiedFiles, wi, si, fi, cur, pidx,
                    messageBus, terminal, rewritten, failed >>

-----------------------------------------------------------------------------
Next ==
    \/ ValidateMounts
    \/ ResetOutput
    \/ RegisterWorkers
    \/ LaunchLint
    \/ \E k \in 1..Len(allWorkerPromises), ok \in BOOLEAN : LintExit(k, ok)
    \/ ResolveMounts
    \/ \E ok \in BOOLEAN : MountStart(ok)
    \/ \E t \in 1..Len(tasks), ok \in BOOLEAN : TaskCopy(t, ok)
    \/ \E t \in 1..Len(tasks), ok \in BOOLEAN : TaskRead(t, ok)
    \/ \E t \in 1..Len(tasks) : TaskRewrite(t)
    \/ \E t \in 1..Len(tasks), ok \in BOOLEAN : TaskWrite(t, ok)
    \/ MountSettle
    \/ DeclareSets
    \/ WorkerLoop
    \/ FileLoop
    \/ \E ok, stderr, stdout \in BOOLEAN : BuildExit(ok, stderr, stdout)
    \/ BuildRewrite
    \/ \E ok \in BOOLEAN : BuildWrite(ok)
    \/ \E ok \in BOOLEAN : PluginReturn(ok)
    \/ PluginRewrite
    \/ \E ok \in BOOLEAN : PluginWrite(ok)
    \/ AwaitLint
    \/ ProxyLoop
    \/ ProxyRead
    \/ \E ok \in BOOLEAN : ProxyWrite(ok)
    \/ BundleStage
    \/ \E outcome \in {"ok", "copy", "manifest"} : PrepareBuildDirectoryForParcel(outcome)
    \/ \E ok \in BOOLEAN : ParcelExit(ok)
    \/ Cleanup

Spec == Init /\ [][Next]_vars

-----------------------------------------------------------------------------
(* Properties of the runs of command()                                     *)

\* the event e has been emitted
Emitted(e) == \E i \in 1..Len(messageBus) : messageBus[i] = e

\* the positions of the event e on the status channel
Positions(e) == {i \in 1..Len(messageBus) : messageBus[i] = e}

\* the event e has been emitted before position j
EmittedBefore(e, j) == \E i \in 1..(j - 1) : messageBus[i] = e

\* C1: every enumerated file is processed by at most one terminal action
\* (copy or direct rewrite in the mount pass, one build-worker transform, one
\* plugin-worker transform), whatever build: and plugin: ids are registered.
C1_AtMostOneTerminalAction ==
    \A a, b \in terminal : a.f = b.f => a = b

\* C2: a build worker or a plugin worker that fails on a file is reported on
\* the status channel under the worker's id, and the failure is never thrown
\* out of command().
C2_WorkerFailureReportedNotThrown ==
    \A x \in failed :
        x.kind \in {"build", "plugin"} =>
            /\ Emitted(CompleteError(x.id))
            /\ ~(pc = "rejected" /\ rejection = x.kind)

\* the paths the proxy rule resolves for the calls of the callback made so far
ProxyTargets ==
    {RewriteSpecifier(rewritten[i].spec, rewritten[i].outPath, TRUE).proxy :
        i \in 1..Len(rewritten)} \ {""}

\* C3: with bundling disabled, recording a non-js relative import never makes
\* the task of the importing file fail, and when the proxy generator starts
\* the ProxyRequest set holds exactly one entry per distinct resolved path of
\* the imports rewritten in the three passes.
C3_ProxyRequestsRecorded ==
    ~isBundled =>
        /\ \A i \in 1..Len(rewritten) : ~rewritten[i].threw
        /\ \A t \in 1..Len(tasks) : tasks[t].err # "ReferenceError"
        /\ (pc = "proxy" /\ pidx = 1) =>
               /\ {allProxiedFiles[i] : i \in 1..Len(allProxiedFiles)} = ProxyTargets
               /\ \A i, j \in 1..Len(allProxiedFiles) :
                      allProxiedFiles[i] = allProxiedFiles[j] => i = j

\* C4: when bundling is enabled the ProxyRequest set is empty and no pass
\* rewrites a specifier with a .proxy.js suffix.
C4_NoProxyWhenBundled ==
    isBundled =>
        /\ allProxiedFiles = << >>
        /\ \A i \in 1..Len(rewritten) : ~EndsWith(rewritten[i].result, ".proxy.js")

\* a bare specifier the dependency import map does not hold
IsBareMissing(spec) ==
    /\ ~StartsWith(spec, "http")
    /\ ~StartsWith(spec, "/") /\ ~StartsWith(spec, "./") /\ ~StartsWith(spec, "../")
    /\ spec \notin DOMAIN dependencyImportMap.imports

\* the calls of the callback for the specifier spec
CallsFor(spec) == {i \in 1..Len(rewritten) : rewritten[i].spec = spec}

\* C5, as the specification states it: MISSING_WEB_MODULE is emitted exactly
\* once per distinct missing specifier over the whole run.
C5_MissingReportedOncePerSpecifier ==
    \A i, j \in 1..Len(messageBus) :
        (messageBus[i].type = "MISSING_WEB_MODULE" /\ messageBus[i] = messageBus[j])
            => i = j

\* C5, as the code has it: MISSING_WEB_MODULE is emitted once for every import
\* of a bare specifier absent from the dependency import map, so as many times
\* as import statements reference it, and for no other specifier; every such
\* import is rewritten to /web_modules/<specifier>.js and never fails the
\* rewrite of its script.
C5_MissingReportedPerImport ==
    /\ \A i \in 1..Len(rewritten) :
           IsBareMissing(rewritten[i].spec) =>
               /\ ~rewritten[i].threw
               /\ rewritten[i].result = "/web_modules/" \o rewritten[i].spec \o ".js"
    /\ \A i \in 1..Len(rewritten) :
           Cardinality(Positions(Missing(rewritten[i].spec))) =
               IF IsBareMissing(rewritten[i].spec)
               THEN Cardinality(CallsFor(rewritten[i].spec)) ELSE 0
    /\ \A j \in 1..Len(messageBus) :
           messageBus[j].type = "MISSING_WEB_MODULE" => CallsFor(messageBus[j].id) # {}

\* a script that imports the missing specifier x twice has been written with
\* the placeholder path, and both imports have been reported
C5_Witness ==
    /\ Cardinality(Positions(Missing("x"))) >= 2
    /\ \E p \in DOMAIN disk :
           /\ disk[p].kind = "code"
           /\ Cardinality({k \in 1..Len(disk[p].code) :
                               disk[p].code[k] = "/web_modules/x.js"}) = 2

\* C6: the completion of a mount is reported only once every copy/rewrite
\* task of the mount has settled: no task of a mount whose completion has
\* been reported is still pending.
C6_CompletionAfterAllTasksSettle ==
    \A t \in 1..Len(tasks) :
        tasks[t].mount < mi => tasks[t].st \in {"fulfilled", "rejected"}

\* the WORKER_COMPLETE of the worker id, with or without error, has been
\* emitted before position j
CompletedBefore(id, j) ==
    EmittedBefore(CompleteOk(id), j) \/ EmittedBefore(CompleteError(id), j)

Completed(id) == Emitted(CompleteOk(id)) \/ Emitted(CompleteError(id))

MountId(k) == mountDirDetails[k].id

\* C7: mounts are processed one after the other in registration order: the
\* WORKER_COMPLETE of a mount, with or without error, is emitted before the
\* RUNNING update of the next mount, and no file of the next mount is
\* enumerated before it.
C7_MountsOneAfterTheOther ==
    /\ \A k \in 2..Len(mountDirDetails) : \A j \in Positions(Running(MountId(k))) :
           CompletedBefore(MountId(k - 1), j)
    /\ \A k \in 1..Len(mountDirDetails) :
           /\ Cardinality(Positions(Running(MountId(k)))) <= 1
           /\ \A j \in Positions(CompleteOk(MountId(k))) \cup
                       Positions(CompleteError(MountId(k))) :
                  EmittedBefore(Running(MountId(k)), j)
    /\ \A t \in 1..Len(tasks) :
           /\ tasks[t].mount <= mi
           /\ Emitted(Running(MountId(tasks[t].mount)))
           /\ tasks[t].mount > 1 => Completed(MountId(tasks[t].mount - 1))

\* the first mount has failed and the second one is being processed
C7_Witness ==
    /\ Emitted(CompleteError("mount:a"))
    /\ Emitted(Running("mount:b"))
    /\ \E t \in 1..Len(tasks) : tasks[t].mount = 2

\* the mount k has ended with a failure: glob.sync threw, or a task rejected
MountFailed(k) ==
    /\ k < mi
    /\ \/ Failure("glob", MountId(k), "") \in failed
       \/ \E t \in TasksOf(k) : tasks[t].st = "rejected"

\* the mount pass has ended
MountPassOver == setsDeclared

\* the transform-worker pass has ended without a rejection
WorkerPassOver ==
    \/ pc \in {"lintAwait", "proxy", "proxyRead", "proxyWrite", "bundle", "prepare",
               "parcel", "cleanup", "done"}
    \/ pc = "rejected" /\ rejection \in {"lint", "proxy", "prepare", "bundle"}

\* the files of the mount k that line 216 has deferred to the transform workers
DeferredOf(k) ==
    FilesOf(SelectSeq(tasks, LAMBDA task : task.mount = k /\ IsDeferred(task)))

\* the build: and plugin: workers whose id matches the file f
WorkersOf(f) ==
    {i \in 1..Len(relevantWorkers) :
        /\ IsBuild(relevantWorkers[i].id) \/ IsPlugin(relevantWorkers[i].id)
        /\ Matches(relevantWorkers[i].id, ExtOf(f))}

\* C8: a failure while enumerating or processing the files of a mount is
\* fatal to that mount only: it is reported as WORKER_MSG error and
\* WORKER_COMPLETE with error for the mount, command() does not reject with
\* it, every later mount is processed, and the deferred files of the other
\* mounts are handed to the transform workers.
C8_MountFailureFatalToThatMountOnly ==
    /\ \A k \in 1..Len(mountDirDetails) :
           MountFailed(k) =>
               /\ Emitted(MsgError(MountId(k)))
               /\ Emitted(CompleteError(MountId(k)))
               /\ ~Emitted(CompleteOk(MountId(k)))
    /\ pc = "rejected" =>
           rejection \in {"config", "build", "write", "lint", "proxy", "prepare", "bundle"}
    /\ pc \in {"mount", "mountAwait"} => rejection = ""
    /\ MountPassOver =>
           /\ \A k \in 1..Len(mountDirDetails) :
                  Emitted(Running(MountId(k))) /\ Completed(MountId(k))
           /\ includeFileSets =
                  LET ok == SelectSeq([k \in 1..Len(mountDirDetails) |-> k],
                                      LAMBDA k : ~MountFailed(k))
                  IN  [s \in 1..Len(ok) |->
                          [dirDisk |-> mountDirDetails[ok[s]].dirDisk,
                           dirDest |-> mountDirDetails[ok[s]].dirDest,
                           allFiles |-> DeferredOf(ok[s])]]
    /\ WorkerPassOver =>
           \A k \in 1..Len(mountDirDetails) :
               ~MountFailed(k) =>
                   \A n \in 1..Len(DeferredOf(k)) : \A i \in WorkersOf(DeferredOf(k)[n]) :
                       \E x \in terminal :
                           x.f = DeferredOf(k)[n] /\ x.id = relevantWorkers[i].id

\* the first mount has failed, the second one has been processed and its
\* deferred style sheet has been handed to the build worker
C8_Witness ==
    /\ MountFailed(1)
    /\ Emitted(CompleteOk("mount:b"))
    /\ Terminal("/c/p/b.css", "build", "build:css") \in terminal
    /\ pc = "done"

\* the ids of the lintall: scripts
LintIds == {scripts[i].id : i \in {j \in 1..Len(scripts) : IsLint(scripts[j].id)}}

\* every lint process has exited with success
AllLintOk == \A k \in 1..Len(allWorkerPromises) : allWorkerPromises[k].st = "ok"

\* the bundle stage has ended, with or without bundling
BundleStageOver == Completed(Bundle)

\* proxy generation or the bundle stage has begun
PastLintAwait ==
    \/ pc \in {"proxy", "proxyRead", "proxyWrite", "bundle", "prepare", "parcel",
               "cleanup", "done"}
    \/ pc = "rejected" /\ rejection \in {"proxy", "prepare", "bundle"}

\* C9, as the specification states it: the pipeline waits for the lint
\* workers only at the very end, after proxy generation and bundling have
\* finished, so a failing lint worker never prevents those stages from running.
C9_LintAwaitedAtTheVeryEnd ==
    \A k \in 1..Len(allWorkerPromises) :
        /\ (pc = "lintAwait" /\ allWorkerPromises[k].st = "running") => BundleStageOver
        /\ (pc = "rejected" /\ rejection = "lint") => BundleStageOver

\* C9, as the code has it: every lintall: worker is launched exactly once,
\* before any mount starts; the pipeline waits for the lint workers after the
\* mount pass and the transform-worker pass and before proxy generation and
\* bundling, which begin only when every lint worker has succeeded; a failing
\* lint worker makes command() reject without any proxy written and without
\* the bundle stage.
C9_LintAwaitedBeforeProxies ==
    /\ \A id \in LintIds :
           /\ Cardinality(Positions(Running(id))) <= 1
           /\ \A j \in 1..Len(messageBus) :
                  IsMount(messageBus[j].id) => EmittedBefore(Running(id), j)
           /\ pc \notin {"start", "reset", "register", "lint", "returned"}
                  /\ ~(pc = "rejected" /\ rejection = "config" /\ messageBus = << >>)
                  => Emitted(Running(id))
    /\ pc = "lintAwait" => MountPassOver /\ wi > Len(relevantWorkers)
    /\ PastLintAwait => AllLintOk
    /\ (pc = "rejected" /\ rejection = "lint") =>
           /\ MountPassOver /\ wi > Len(relevantWorkers)
           /\ pidx = 1
           /\ \A p \in DOMAIN disk : disk[p].kind # "proxy"
           /\ \A j \in 1..Len(messageBus) :
                  messageBus[j].id = Bundle => messageBus[j] = Skip(Bundle)

\* a lint worker has failed while the transform workers ran, and command()
\* has rejected with it after the worker pass
C9_Witness ==
    /\ pc = "rejected" /\ rejection = "lint"
    /\ Emitted(CompleteError("lintall:t"))
    /\ Emitted(CompleteOk("plugin:css"))

\* the directory dir and everything in it is gone
Removed(dir) == dir \notin dirs /\ \A p \in DOMAIN disk : ~Under(p, dir)

\* C10: a bundler that exits with a non-zero status fails the whole run:
\* WORKER_MSG error and WORKER_COMPLETE with error are emitted for bundle:*,
\* command() rejects and the intermediate build directory is kept; after a
\* bundler that succeeds, the intermediate directory, when it is not the final
\* one, is removed.
C10_BundlerFailureIsFatal ==
    /\ Failure("parcel", Bundle, "") \in failed =>
           /\ pc = "rejected" /\ rejection = "bundle"
           /\ Emitted(MsgError(Bundle)) /\ Emitted(CompleteError(Bundle))
           /\ ~Emitted(CompleteOk(Bundle))
           /\ buildDirectoryLoc \in dirs
           /\ (buildDirectoryLoc \o "/package.json") \in DOMAIN disk
    /\ (pc = "done" /\ isBundled) =>
           /\ Emitted(CompleteOk(Bundle))
           /\ finalDirectoryLoc # buildDirectoryLoc
           /\ Removed(buildDirectoryLoc)
    /\ pc = "done" => finalDirectoryLoc \in dirs

\* the bundler has exited with a non-zero status
C10_Witness ==
    /\ Failure("parcel", Bundle, "") \in failed
    /\ pc = "rejected"
    /\ \E p \in DOMAIN disk : Under(p, buildDirectoryLoc) /\ disk[p].kind = "code"

-----------------------------------------------------------------------------
(* C11                                                                     *)

\* lines 64-69: a mount: script whose command does not start with the token mount
Malformed(script) == IsMount(script.id) /\ SplitBlanks(script.cmd)[1] # "mount"

HasMalformedMount == \E i \in 1..Len(scripts) : Malformed(scripts[i])

\* what a run that has done nothing yet has left behind: the directories are as they
\* were found, no worker was launched or registered, nothing was emitted or written
Untouched ==
    /\ disk = StaleDisk
    /\ dirs = {}
    /\ messageBus = << >>
    /\ allWorkerPromises = << >>
    /\ relevantWorkers = << >>
    /\ tasks = << >>
    /\ terminal = {}

\* C11: a run whose scripts hold a mount: script with a command whose first token is
\* not mount is rejected with the configuration error and goes nowhere else: it is
\* either not started or rejected, and in both states no output directory was removed
\* or created, no lint worker was launched, no event was emitted, no file was written.
C11_MalformedMountAbortsFirst ==
    /\ HasMalformedMount => pc \in {"start", "rejected"} /\ Untouched
    /\ (HasMalformedMount /\ pc = "rejected") => rejection = "config"
    /\ rejection = "config" => HasMalformedMount /\ Untouched

C11_Witness ==
    /\ pc = "rejected" /\ rejection = "config"
    /\ \E i \in 1..Len(scripts) : scripts[i].id = "mount:z" /\ scripts[i].cmd = "mnt p"
    /\ (OutDir \o "/old.js") \in DOMAIN disk

-----------------------------------------------------------------------------
(* C12                                                                     *)

\* the source files handed to a build: or plugin: worker (lines 274-277)
HandedToWorker == {t.f : t \in {u \in terminal : u.kind \in {"build", "plugin"}}}

\* the source files whose output a worker has written to the build directory
\* (lines 329-330 and 379-380)
WrittenByWorker ==
    {f \in HandedToWorker :
        \E p \in DOMAIN disk :
            Under(p, buildDirectoryLoc) /\ disk[p].kind = "code" /\ disk[p].from = f}

\* C12: when the pass of the build: and plugin: workers has just ended, the set
\* allBuiltFromFiles holds exactly the source files whose transform by a build worker
\* or by a plugin worker has succeeded and whose output was written.
C12_BuiltRecordIsExact ==
    pc = "lintAwait" => allBuiltFromFiles = WrittenByWorker

-----------------------------------------------------------------------------
(* C13                                                                     *)

\* C13: when the build is bundled, the copy that precedes the bundler leaves out the
\* files recorded in allBuiltFromFiles: the final directory never holds the output
\* that a worker has written to the intermediate directory for a recorded source file.
C13_RecordedOutputsNotCopied ==
    isBundled =>
        \A p \in DOMAIN disk :
            Under(p, finalDirectoryLoc) => disk[p].from \notin allBuiltFromFiles

-----------------------------------------------------------------------------
(* The callback of lines 227-252, 302-327 and 352-377 on specifiers of     *)
(* every shape: a run is taken at the moment the code of one script, with  *)
(* one import, is handed to transformEsmImports in one of the three passes *)

\* the import specifiers: a prefix, a folder, a name and an ending
Specifiers ==
    {p \o d \o n \o e : p \in {"", "./", "../", "../../", "/", "http://h/"},
                        d \in {"", "a/", "a.b/"},
                        n \in {"x", "r", ".", "..", ""},
                        e \in {"", ".js", ".css", ".scss", ".svg", ".", "/"}}

\* the scripts of a project whose one file is rewritten in the given pass
RewriterScripts(pass) ==
    IF pass = "mount" THEN << Script("mount:e", "mount e") >>
    ELSE IF pass = "build"
    THEN << Script("mount:f", "mount f --to g"), Script("build:css", "postcss") >>
    ELSE << Script("mount:f", "mount f --to g"), Script("plugin:css", "plug") >>

\* The state of command() when the one script of the project, importing spec, has
\* been read (line 226), printed by its build worker (line 287) or returned by its
\* plugin (line 337)
RewriterState(pass, spec) ==
    /\ scripts = RewriterScripts(pass)
    /\ pc = IF pass = "mount" THEN "mountAwait"
            ELSE IF pass = "build" THEN "buildRewrite" ELSE "pluginRewrite"
    /\ rejection = ""
    /\ relevantWorkers = SelectSeq(scripts, Relevant) \o << Script("bundle:*", "NA") >>
    /\ allBuildExtensions = BuildExtensionsFrom(scripts, 1)
    /\ allWorkerPromises = << >>
    /\ mountDirDetails = << MountDetail(scripts[1]) >>
    /\ mi = IF pass = "mount" THEN 1 ELSE 2
    /\ tasks = IF pass = "mount"
               THEN [TasksFor(1, GlobSync(mountDirDetails[1].dirDisk))
                        EXCEPT ![1].st = "rewriting", ![1].code = << spec >>]
               ELSE TasksFor(1, GlobSync(mountDirDetails[1].dirDisk))
    /\ allBuildNeededFiles = FilesOf(SelectSeq(tasks, IsDeferred))
    /\ includeFileSets = IF pass = "mount" THEN << >>
                         ELSE << [dirDisk |-> mountDirDetails[1].dirDisk,
                                  dirDest |-> mountDirDetails[1].dirDest,
                                  allFiles |-> allBuildNeededFiles] >>
    /\ setsDeclared = (pass # "mount")
    /\ allBuiltFromFiles = {}
    /\ allProxiedFiles = << >>
    /\ wi = IF pass = "mount" THEN 1 ELSE 2
    /\ si = 1 /\ fi = 1
    /\ cur = IF pass = "mount" THEN NoTransform
             ELSE [outPath |-> OutPathOf(allBuildNeededFiles[1], mountDirDetails[1].dirDisk,
                                         mountDirDetails[1].dirDest),
                   code |-> << spec >>, stdout |-> TRUE, stderr |-> FALSE]
    /\ pidx = 1
    /\ messageBus = (IF ~isBundled THEN << Skip("bundle:*") >> ELSE << >>)
                    \o << Running(scripts[1].id) >>
                    \o (IF pass = "mount" THEN << >>
                        ELSE << CompleteOk(scripts[1].id), Running(scripts[2].id) >>)
    /\ disk = Rimraf(Rimraf(StaleDisk, finalDirectoryLoc), buildDirectoryLoc)
    /\ dirs = {finalDirectoryLoc, buildDirectoryLoc}
    /\ terminal = IF pass = "mount"
                  THEN {Terminal(tasks[1].f, "rewrite", scripts[1].id)}
                  ELSE {Terminal(allBuildNeededFiles[1], pass, scripts[2].id)}
    /\ rewritten = << >>
    /\ settled = {}
    /\ failed = {}

RewriterInit ==
    /\ bundleOption \in {"true", "false", "undefined"}
    /\ parcelInstalled \in (IF bundleOption = "undefined" THEN BOOLEAN ELSE {FALSE})
    /\ \E pass \in {"mount", "build", "plugin"}, spec \in Specifiers :
           RewriterState(pass, spec)

RewriterNext ==
    \/ \E t \in 1..Len(tasks) : TaskRewrite(t)
    \/ BuildRewrite
    \/ PluginRewrite

RewriterSpec == RewriterInit /\ [][RewriterNext]_vars

-----------------------------------------------------------------------------
(* C14                                                                     *)

\* line 230: the specifiers the callback takes for paths
HasPathPrefix(spec) ==
    StartsWith(spec, "/") \/ StartsWith(spec, "./") \/ StartsWith(spec, "../")

\* the bare directory forms
IsDirectoryForm(spec) == spec \in {".", ".."}

\* the events MISSING_WEB_MODULE on the bus
MissingEvents == SelectSeq(messageBus, LAMBDA e : e.type = "MISSING_WEB_MODULE")

\* the one call of the callback, on a specifier with no extension, has appended .js
\* and has done nothing else
AppendedOnly(c) ==
    /\ ~c.threw
    /\ c.result = c.spec \o ".js"
    /\ allProxiedFiles = << >>
    /\ MissingEvents = << >>

\* C14 as claimed: a specifier with no extension that is a relative or root-relative
\* path of any shape, the directory forms . and .. included, is rewritten to itself
\* followed by .js, with no proxy request and no MISSING_WEB_MODULE event
C14_ExtensionlessOfEveryShape ==
    \A i \in 1..Len(rewritten) :
        (HasPathPrefix(rewritten[i].spec) \/ IsDirectoryForm(rewritten[i].spec))
        /\ ExtOf(rewritten[i].spec) = ""
        => AppendedOnly(rewritten[i])

\* C14 amended: a specifier that begins with /, ./ or ../ and has no extension is
\* rewritten, in each of the three passes and bundled or not, to itself followed by
\* .js, with no proxy request and no MISSING_WEB_MODULE event; the forms . and .. have
\* no such prefix and are rewritten as bare specifiers that the import map does not
\* hold: to /web_modules/<specifier>.js, with a MISSING_WEB_MODULE event.
C14_ExtensionlessWithPathPrefix ==
    \A i \in 1..Len(rewritten) :
        /\ HasPathPrefix(rewritten[i].spec) /\ ExtOf(rewritten[i].spec) = ""
           => AppendedOnly(rewritten[i])
        /\ IsDirectoryForm(rewritten[i].spec)
           => /\ ~rewritten[i].threw
              /\ rewritten[i].result = "/web_modules/" \o rewritten[i].spec \o ".js"
              /\ MissingEvents = << Missing(rewritten[i].spec) >>

C14_Witness ==
    /\ ~isBundled
    /\ Len(rewritten) = 1
    /\ rewritten[1].pass = "plugin"
    /\ rewritten[1].spec = "../a.b/x"
    /\ rewritten[1].result = "../a.b/x.js"
    /\ pc = "pluginWrite"

-----------------------------------------------------------------------------
(* C15                                                                     *)

\* line 235: the extension path.extname finds in the specifier has a remap
HasRemap(spec) == srcFileExtensionMapping(ExtOf(spec)) # ""

\* the specifier with the extension it ends with replaced by its remap
Remapped(spec) ==
    SubSeq(spec, 1, Len(spec) - Len(ExtOf(spec))) \o srcFileExtensionMapping(ExtOf(spec))

\* the callback of the pass of the call c, on the specifier c has returned, returns
\* it as it is, adds no proxy request and emits no event
RewrittenIsFixed(c) ==
    PassRewriter(c.pass, c.result, c.outPath) = Rewritten(c.result, "", FALSE)

-----------------------------------------------------------------------------
(* C16                                                                     *)

\* the words of the command of a mount: script: mount <dir> [--to <dest>]
MountWords(k) ==
    SplitBlanks(scripts[CHOOSE i \in 1..Len(scripts) : scripts[i].id = MountId(k)].cmd)

\* the path of the file f of the k-th mount under the destination of the mount,
\* with the path it has under the source directory
SameRelativePath(k, f) ==
    mountDirDetails[k].dirDest \o SubSeq(f, Len(mountDirDetails[k].dirDisk) + 1, Len(f))

\* the build directory is as the passes have left it
BuildDirKept == pc \notin {"done"} \/ buildDirectoryLoc = finalDirectoryLoc

\* the k-th mount has the directories <cwd>/<dir> and <buildRoot>/<dest>, <dest>
\* being <dir> without --to
MountsResolvedAsClaimed ==
    \A k \in 1..Len(mountDirDetails) :
        /\ mountDirDetails[k].dirDisk = cwd \o "/" \o MountWords(k)[2]
        /\ mountDirDetails[k].dirDest =
               buildDirectoryLoc \o "/" \o MountWords(k)[Len(MountWords(k))]

-----------------------------------------------------------------------------
(* C17                                                                     *)

\* the invocations of the transform pass, as positions of its three loops: the
\* worker, the file set and the file (lines 266-277)
Invocations ==
    {x \in [w : 1..Len(relevantWorkers), s : 1..Len(includeFileSets),
            i : UNION {1..Len(includeFileSets[s].allFiles) :
                          s \in 1..Len(includeFileSets)}] :
        /\ IsBuild(relevantWorkers[x.w].id) \/ IsPlugin(relevantWorkers[x.w].id)
        /\ x.i <= Len(includeFileSets[x.s].allFiles)
        /\ Matches(relevantWorkers[x.w].id, ExtOf(includeFileSets[x.s].allFiles[x.i]))}

InvocationAt(x) ==
    Invocation(relevantWorkers[x.w].id, includeFileSets[x.s].allFiles[x.i])

\* x comes before y: an earlier worker, or the same worker and an earlier file
ComesBefore(x, y) ==
    \/ x.w < y.w
    \/ x.w = y.w /\ x.s < y.s
    \/ x.w = y.w /\ x.s = y.s /\ x.i < y.i

\* the invocations started, and those started and not over
Started == {Invocation(t.id, t.f) : t \in {u \in terminal : u.kind \in {"build", "plugin"}}}
InFlight == Started \ settled

\* C17: the build: and plugin: workers are never fanned out. At most one invocation is
\* in flight; an invocation is started only when every invocation that comes before it
\* (workers in registration order, and for one worker the files in enumeration order)
\* is over: its output was written, or the file was skipped or has failed.
C17_OneTransformAtATime ==
    /\ Cardinality(InFlight) <= 1
    /\ settled \subseteq Started
    /\ \A all \in {Invocations} :
           /\ Started \subseteq {InvocationAt(x) : x \in all}
           /\ \A y \in all :
                  InvocationAt(y) \in Started
                  => \A x \in all : ComesBefore(x, y) => InvocationAt(x) \in settled

C17_Witness ==
    /\ pc = "pluginAwait"
    /\ InFlight = {Invocation("plugin:css", "/c/k/d.css")}
    /\ settled = {Invocation("plugin:css", "/c/k/c.css")}
    /\ "/c/o/k/c.js" \in DOMAIN disk

-----------------------------------------------------------------------------
(* C18                                                                     *)

\* the build: and plugin: workers
TransformIds ==
    {relevantWorkers[i].id : i \in {j \in 1..Len(relevantWorkers) :
        IsBuild(relevantWorkers[j].id) \/ IsPlugin(relevantWorkers[j].id)}}

\* the loop of lines 389-396 has been entered, and it has been left
GeneratorStarted ==
    \/ pc \in {"proxy", "proxyRead", "proxyWrite", "bundle", "prepare", "parcel",
               "cleanup", "done"}
    \/ pc = "rejected" /\ rejection \in {"proxy", "prepare", "bundle"}
GeneratorOver ==
    \/ pc \in {"bundle", "prepare", "parcel", "cleanup", "done"}
    \/ pc = "rejected" /\ rejection \in {"prepare", "bundle"}

\* C18: the proxy generator runs only after every build: and plugin: worker has
\* emitted its last WORKER_COMPLETE, it writes the proxy file of every proxy request
\* at the path of the target followed by .proxy.js, and no proxy request is added
\* after it has started: once it is over, every proxy request has its proxy file.
C18_ProxiesGeneratedForEveryRequest ==
    /\ GeneratorStarted => \A id \in TransformIds : Emitted(CompleteOk(id))
    /\ (GeneratorOver /\ BuildDirKept)
       => \A k \in 1..Len(allProxiedFiles) :
              /\ (allProxiedFiles[k] \o ".proxy.js") \in DOMAIN disk
              /\ disk[allProxiedFiles[k] \o ".proxy.js"] = Proxy(allProxiedFiles[k])

-----------------------------------------------------------------------------
(* C19                                                                     *)

\* the step of command() after the await of line 281, and after that of line 330
BuildExitStep == pc = "buildAwait" /\ pc' # "buildAwait"
BuildWriteStep == pc = "buildWrite" /\ pc' # "buildWrite"

\* C19: a non-empty stderr alone does not fail the task of a build: worker. When the
\* process exits with status zero, its stderr, if any, is put on the status channel
\* and changes nothing else; with a non-empty output the file goes on to be written,
\* and the write records the source path in allBuiltFromFiles; with an empty output
\* nothing is written and nothing is recorded. Only a failing process or a failing
\* write rejects.
C19_StderrAloneDoesNotFail ==
    [][/\ (BuildExitStep /\ pc' = "rejected") => failed' # failed
       /\ (BuildExitStep /\ pc' # "rejected")
          => /\ messageBus' = messageBus \o (IF cur'.stderr THEN << ConsoleError >>
                                             ELSE << >>)
             /\ disk' = disk
             /\ allBuiltFromFiles' = allBuiltFromFiles
             /\ IF cur'.stdout THEN pc' \in {"buildRewrite", "buildWrite"} /\ fi' = fi
                ELSE pc' = "file" /\ fi' = fi + 1
       /\ (BuildWriteStep /\ pc' = "rejected") => failed' # failed
       /\ (BuildWriteStep /\ pc' # "rejected")
          => /\ pc' = "file"
             /\ cur.outPath \in DOMAIN disk'
             /\ disk'[cur.outPath] = Written(CurFile, cur.code)
             /\ CurFile \in allBuiltFromFiles'
      ]_vars

C19_Witness ==
    /\ pc = "file"
    /\ failed = {}
    /\ cur.stderr /\ cur.stdout
    /\ Emitted(ConsoleError)
    /\ cur.outPath \in DOMAIN disk
    /\ disk[cur.outPath].from \in allBuiltFromFiles

-----------------------------------------------------------------------------
(* C20                                                                     *)

\* the positions of the WORKER_COMPLETE events of a worker
Completions(id) == Positions(CompleteOk(id)) \cup Positions(CompleteError(id))

\* the worker has failed on a file
FailedOnFile(id) == \E x \in failed : x.id = id /\ x.f # ""

\* C20: in a run that has come to its end, every mount:, build: and plugin: worker
\* has got exactly one WORKER_COMPLETE, emitted after its RUNNING; the WORKER_COMPLETE
\* of a worker that has failed on a file carries the error, and no WORKER_COMPLETE
\* without error for that worker follows it.
C20_ExactlyOneCompletion ==
    pc = "done"
    => \A id \in {MountId(k) : k \in 1..Len(mountDirDetails)} \cup TransformIds :
           /\ Cardinality(Completions(id)) = 1
           /\ \A j \in Completions(id) : EmittedBefore(Running(id), j)
           /\ FailedOnFile(id) => Positions(CompleteOk(id)) = {}

-----------------------------------------------------------------------------
(* C21                                                                     *)

\* line 392: proxiedFileLoc.substr(buildDirectoryLoc.length) is the URL of the
\* proxied file when the file is in the build directory
InBuildDirectory(loc) == StartsWith(loc, buildDirectoryLoc \o "/")

\* C21: every path of the ProxyRequest set lies under the intermediate build
\* directory, whatever the shape of the specifier it was resolved from (./x.ext,
\* ../x.ext leaving the mount, /x.ext).
C21_ProxyRequestsUnderBuildDir ==
    \A k \in 1..Len(allProxiedFiles) : InBuildDirectory(allProxiedFiles[k])

=============================================================================
